---- MODULE Spec2Model ----
(***************************************************************************)
(* A model of the RSS MCP server: the thumbnail extractor, the per-tool    *)
(* feed handlers of server.ts and of the modular tools/ files, and the     *)
(* search handlers.  JavaScript values are tagged records, strings are     *)
(* sequences of one-character strings so that trim, toLowerCase, the       *)
(* http(s) prefix test and the <img> regular expression are computed.      *)
(***************************************************************************)
EXTENDS Integers, Sequences, FiniteSets, TLC

VARIABLES
  xitem,      \* extractor harness: the raw item object handed to extractThumbnail
  xarg,       \* extractor harness: the item as it was when the last call started
  xret,       \* extractor harness: what the last call returned
  xcalls,     \* extractor harness: number of calls made on xitem
  world,      \* what the network answers: feeds per source position, search responses
  op,         \* the tool being invoked, "idle" between invocations
  input,      \* the validated input of the invocation
  pc,         \* position of the handler
  idx,        \* index of the next source URL of the handler's for-loop
  allPosts,   \* the handler's accumulator (allMemes / allStories / allPosts / results)
  rssFailed,  \* fetch_x_posts / personalize_feed x-posts flag
  fetchLog,   \* the network requests the invocation has made, in order
  result,     \* what the handler returned (or that it threw)
  previous,   \* what the same invocation returned when the client made it before
  closed,     \* whether the HTTP response of the invocation has closed, and when
  other       \* a second invocation in flight: the locals of the suspended handler

vars == <<xitem, xarg, xret, xcalls, world, op, input, pc, idx, allPosts, rssFailed, fetchLog, result, previous, closed, other>>
xvars == <<xitem, xarg, xret, xcalls, previous, closed, other>>
opvars == <<world, op, input, pc, idx, allPosts, rssFailed, fetchLog, result>>

(***************************************************************************)
(* Bounds of the model                                                     *)
(***************************************************************************)
MaxThumbs == 3
MaxCalls == 2
MaxItems == 2
MaxCount == 2

(***************************************************************************)
(* JavaScript values                                                       *)
(***************************************************************************)
Undef == [t |-> "undefined"]
Null == [t |-> "null"]
Str(s) == [t |-> "string", s |-> s]
Num(n) == [t |-> "number", n |-> n]
Arr(a) == [t |-> "array", a |-> a]

Nullish(v) == v.t \in {"undefined", "null"}

\* ToBoolean, as used by `if (v)`, `v || w`, `!v`
Truthy(v) ==
  CASE v.t = "undefined" -> FALSE
    [] v.t = "null" -> FALSE
    [] v.t = "string" -> v.s # <<>>
    [] v.t = "number" -> v.n # 0
    [] OTHER -> TRUE

\* a || b
Or(a, b) == IF Truthy(a) THEN a ELSE b

\* v.f on a value that is not nullish (a missing property reads undefined)
Prop(v, f) == IF v.t = "object" /\ f \in DOMAIN v THEN v[f] ELSE Undef

\* v?.f
OptProp(v, f) == IF Nullish(v) THEN Undef ELSE Prop(v, f)

IsArray(v) == v.t = "array"

(***************************************************************************)
(* Strings                                                                 *)
(***************************************************************************)
UpperChars == <<"A","B","C","D","E","F","G","H","I","J","K","L","M","N","O","P","Q","R","S","T","U","V","W","X","Y","Z">>
LowerChars == <<"a","b","c","d","e","f","g","h","i","j","k","l","m","n","o","p","q","r","s","t","u","v","w","x","y","z">>

LowerChar(c) ==
  IF \E i \in 1..Len(UpperChars) : UpperChars[i] = c
  THEN LowerChars[CHOOSE i \in 1..Len(UpperChars) : UpperChars[i] = c]
  ELSE c

toLowerCase(s) == [i \in 1..Len(s) |-> LowerChar(s[i])]

IsSpace(c) == c \in {" ", "\t", "\n"}

RECURSIVE TrimStart(_)
TrimStart(s) == IF s # <<>> /\ IsSpace(Head(s)) THEN TrimStart(Tail(s)) ELSE s

RECURSIVE TrimEnd(_)
TrimEnd(s) == IF s # <<>> /\ IsSpace(s[Len(s)]) THEN TrimEnd(SubSeq(s, 1, Len(s) - 1)) ELSE s

trim(s) == TrimEnd(TrimStart(s))

\* s starts with p, ignoring case (p is given in lower case)
StartsWithCI(s, p) ==
  /\ Len(s) >= Len(p)
  /\ \A i \in 1..Len(p) : LowerChar(s[i]) = p[i]

HttpPrefix == <<"h","t","t","p",":","/","/">>
HttpsPrefix == <<"h","t","t","p","s",":","/","/">>

\* /^https?:\/\//i.test(s)
HttpRegexTest(s) == StartsWithCI(s, HttpPrefix) \/ StartsWithCI(s, HttpsPrefix)

\* s.includes(q)
includes(s, q) ==
  \E i \in 0..(Len(s) - Len(q)) : \A j \in 1..Len(q) : s[i + j] = q[j]

(***************************************************************************)
(* parseInt: leading white space, an optional sign, then decimal digits;   *)
(* NaN when there is no digit.  A number is [nan |-> FALSE, n |-> k].      *)
(***************************************************************************)
NaN == [nan |-> TRUE, n |-> 0]
Finite(k) == [nan |-> FALSE, n |-> k]

Digits == <<"0","1","2","3","4","5","6","7","8","9">>
IsDigit(c) == \E i \in 1..10 : Digits[i] = c
DigitVal(c) == (CHOOSE i \in 1..10 : Digits[i] = c) - 1

RECURSIVE DigitsValue(_, _)
DigitsValue(s, acc) ==
  IF s # <<>> /\ IsDigit(Head(s)) THEN DigitsValue(Tail(s), 10 * acc + DigitVal(Head(s))) ELSE acc

\* the digits u after the sign: NaN when u does not start with a digit
ParseDigits(u, neg) ==
  IF u # <<>> /\ IsDigit(Head(u))
  THEN Finite((IF neg THEN 0 - 1 ELSE 1) * DigitsValue(u, 0))
  ELSE NaN

\* t has no leading white space: an optional sign, then the digits
ParseSigned(t) ==
  IF t # <<>> /\ Head(t) \in {"-", "+"} THEN ParseDigits(Tail(t), Head(t) = "-") ELSE ParseDigits(t, FALSE)

ParseIntStr(s) == ParseSigned(TrimStart(s))

\* parseInt(v): v is converted to a string first
parseInt(v) ==
  CASE v.t = "string" -> ParseIntStr(v.s)
    [] v.t = "number" -> Finite(v.n)
    [] OTHER -> NaN

(***************************************************************************)
(* Array.prototype.sort with the width comparator                          *)
(***************************************************************************)
Zero == Str(<<"0">>)

\* (a, b) => parseInt(b?.$?.width || '0') - parseInt(a?.$?.width || '0')
\* wb - wa on numbers: NaN when an operand is NaN
Minus(wb, wa) == IF wa.nan \/ wb.nan THEN NaN ELSE Finite(wb.n - wa.n)

compareWidth(a, b) ==
  Minus(parseInt(Or(OptProp(OptProp(b, "attrs"), "width"), Zero)),
        parseInt(Or(OptProp(OptProp(a, "attrs"), "width"), Zero)))

NaNAsZero(v) == IF v.nan THEN 0 ELSE v.n

\* SortCompare of the language: a NaN from the comparator counts as +0
SortCompare(a, b) == NaNAsZero(compareWidth(a, b))

\* c[i, j] is a consistent comparison over 1..n: reflexive, antisymmetric,
\* transitive on "equal" and on "less"
Consistent(c, n) ==
  /\ \A i \in 1..n : c[i, i] = 0
  /\ \A i, j \in 1..n : (c[i, j] = 0 <=> c[j, i] = 0) /\ (c[i, j] < 0 <=> c[j, i] > 0)
  /\ \A i, j, k \in 1..n :
       /\ (c[i, j] = 0 /\ c[j, k] = 0) => c[i, k] = 0
       /\ (c[i, j] < 0 /\ c[j, k] < 0) => c[i, k] < 0

\* the comparator is a consistent comparator for the elements of s
ConsistentComparator(s) == Consistent([i \in 1..Len(s), j \in 1..Len(s) |-> SortCompare(s[i], s[j])], Len(s))

RemoveAt(s, i) == SubSeq(s, 1, i - 1) \o SubSeq(s, i + 1, Len(s))

RECURSIVE StableSort(_)
\* s[i], then the rest in stable order
MoveFirst(s, i) == <<s[i]>> \o StableSort(RemoveAt(s, i))

\* mutant of StableSort: an unstable sort, the last of the elements that
\* compare equal comes first
StableSortTiesReversed(s) ==
  IF s = <<>> THEN <<>>
  ELSE LET first == {i \in 1..Len(s) : \A j \in 1..Len(s) : SortCompare(s[j], s[i]) >= 0}
       IN MoveFirst(s, CHOOSE m \in first : \A k \in first : m >= k)

\* the stable order: repeatedly the first element that no other element precedes
StableSort(s) ==
  IF s = <<>> THEN <<>>
  ELSE LET first == {i \in 1..Len(s) : \A j \in 1..Len(s) : SortCompare(s[j], s[i]) >= 0}
       IN MoveFirst(s, CHOOSE m \in first : \A k \in first : m <= k)

InsertAt(a, e, p) == SubSeq(a, 1, p) \o <<e>> \o SubSeq(a, p + 1, Len(a))

RECURSIVE InsertLinear(_, _, _)
\* the inner loop of an insertion sort: e moves left past every element
\* that compares greater than it
InsertLinear(a, e, j) ==
  IF j >= 1 /\ SortCompare(a[j], e) > 0 THEN InsertLinear(a, e, j - 1) ELSE InsertAt(a, e, j)

RECURSIVE LinearInsertionSort(_, _)
\* the first k elements of s, sorted by insertion from the right (the sort of
\* short arrays in V8 before version 7.0)
LinearInsertionSort(s, k) ==
  IF k = 0 THEN <<>> ELSE InsertLinear(LinearInsertionSort(s, k - 1), s[k], k - 1)

RECURSIVE RunLength(_, _, _)
\* the length of the run that starts at s[1] and reaches at least s[k]
RunLength(s, descending, k) ==
  IF k < Len(s) /\ (IF descending THEN SortCompare(s[k + 1], s[k]) < 0 ELSE SortCompare(s[k + 1], s[k]) >= 0)
  THEN RunLength(s, descending, k + 1)
  ELSE k

\* a strictly descending run is reversed in place
MakeRun(s, descending, n) ==
  IF descending THEN [i \in 1..Len(s) |-> IF i <= n THEN s[n + 1 - i] ELSE s[i]] ELSE s

RECURSIVE BinarySearch(_, _, _, _)
\* the position (counted from 0) at which pivot is inserted into a
BinarySearch(a, pivot, left, right) ==
  IF left >= right THEN left
  ELSE IF SortCompare(pivot, a[left + (right - left) \div 2 + 1]) < 0
       THEN BinarySearch(a, pivot, left, left + (right - left) \div 2)
       ELSE BinarySearch(a, pivot, left + (right - left) \div 2 + 1, right)

InsertBinary(a, e) == InsertAt(a, e, BinarySearch(a, e, 0, Len(a)))

RECURSIVE BinarySorted(_, _, _)
\* the first k elements of s, the initial run of length n extended by binary
\* insertion
BinarySorted(s, n, k) ==
  IF k <= n THEN SubSeq(s, 1, k) ELSE InsertBinary(BinarySorted(s, n, k - 1), s[k])

CountAndMakeRun(s, descending) ==
  BinarySorted(MakeRun(s, descending, RunLength(s, descending, 2)), RunLength(s, descending, 2), Len(s))

\* the sort of arrays of fewer than 64 elements in V8 since version 7.0: the
\* initial run, then binary insertion
BinaryInsertionSort(s) == IF Len(s) < 2 THEN s ELSE CountAndMakeRun(s, SortCompare(s[2], s[1]) < 0)

\* thumbs.sort(compare): stable when the comparator is consistent; with an
\* inconsistent comparator the language leaves the order to the
\* implementation, and the engines of Node.js sort a short array by insertion
SortOutcomes(s) ==
  IF ConsistentComparator(s) THEN {StableSort(s)} ELSE {LinearInsertionSort(s, Len(s)), BinaryInsertionSort(s)}

(***************************************************************************)
(* desc.match(/<img[^>]+src\s*=\s*["']([^"']+)["']/i)                      *)
(***************************************************************************)
NoMatch == [found |-> FALSE, group1 |-> <<>>]

IsQuote(c) == c \in {"\"", "'"}

RECURSIVE SkipSpaces(_, _)
SkipSpaces(s, p) == IF p <= Len(s) /\ IsSpace(s[p]) THEN SkipSpaces(s, p + 1) ELSE p

\* src\s*=\s*["']([^"']+)["'] matched with `src` at position q
SrcAt(s, q) ==
  IF ~(q + 2 <= Len(s) /\ toLowerCase(SubSeq(s, q, q + 2)) = <<"s","r","c">>) THEN NoMatch
  ELSE LET e1 == SkipSpaces(s, q + 3) IN
    IF e1 > Len(s) \/ s[e1] # "=" THEN NoMatch
    ELSE LET e2 == SkipSpaces(s, e1 + 1) IN
      IF e2 > Len(s) \/ ~IsQuote(s[e2]) THEN NoMatch
      ELSE LET closing == {e \in (e2 + 1)..Len(s) : IsQuote(s[e])} IN
        IF closing = {} THEN NoMatch
        ELSE LET e3 == CHOOSE e \in closing : \A f \in closing : e <= f IN
          IF e3 = e2 + 1 THEN NoMatch
          ELSE [found |-> TRUE, group1 |-> SubSeq(s, e2 + 1, e3 - 1)]

\* the positions q at which `src` may start for a tag opened at i: <img, then
\* one or more characters other than '>'
SrcStarts(s, i) ==
  {q \in (i + 5)..Len(s) : (\A k \in (i + 4)..(q - 1) : s[k] # ">") /\ SrcAt(s, q).found}

ImgStarts(s) ==
  {i \in 1..(Len(s) - 3) :
     toLowerCase(SubSeq(s, i, i + 3)) = <<"<","i","m","g">> /\ SrcStarts(s, i) # {}}

\* the leftmost match; [^>]+ is greedy, so the last possible `src` of the tag
Least(S) == CHOOSE m \in S : \A j \in S : m <= j
Greatest(S) == CHOOSE m \in S : \A j \in S : m >= j

GreedyMatch(s, srcs) == SrcAt(s, Greatest(srcs))
LeftmostMatch(s, starts) == IF starts = {} THEN NoMatch ELSE GreedyMatch(s, SrcStarts(s, Least(starts)))

ImgMatch(s) == LeftmostMatch(s, ImgStarts(s))

(***************************************************************************)
(* extractThumbnail (server.ts; the copies in tools/ are the same code)    *)
(***************************************************************************)
\* thumbObj?.$?.url || thumbObj?.url || null   (the `$` attribute bag is `attrs`)
DescriptorUrl(d) == Or(Or(OptProp(OptProp(d, "attrs"), "url"), OptProp(d, "url")), Null)

\* mutant of ContentLoop: only the first entry is examined
ContentLoopFirstEntryOnly(contents, thumbnail) ==
  IF contents = <<>> THEN [threw |-> FALSE, thumbnail |-> thumbnail]
  ELSE LET content == Head(contents) IN
    IF Truthy(OptProp(OptProp(content, "attrs"), "url"))
    THEN [threw |-> FALSE, thumbnail |-> content.attrs.url]
    ELSE IF Nullish(content) THEN [threw |-> TRUE, thumbnail |-> thumbnail]
    ELSE LET nested == Or(Prop(content, "media_thumbnail"), Prop(content, "mediaThumbnail"))
             nestedThumbs == IF IsArray(nested) THEN nested.a ELSE <<nested>>
         IN [threw |-> FALSE,
             thumbnail |-> IF Truthy(nested) /\ Len(nestedThumbs) > 0 THEN DescriptorUrl(nestedThumbs[1]) ELSE thumbnail]

\* the for-loop over the media:content entries; `thumbnail` is the variable's
\* current value.  Reading content['media:thumbnail'] of a null entry throws.
RECURSIVE ContentLoop(_, _)
ContentLoop(contents, thumbnail) ==
  IF contents = <<>> THEN [threw |-> FALSE, thumbnail |-> thumbnail]
  ELSE LET content == Head(contents) IN
    IF Truthy(OptProp(OptProp(content, "attrs"), "url"))
    THEN [threw |-> FALSE, thumbnail |-> content.attrs.url]
    ELSE IF Nullish(content) THEN [threw |-> TRUE, thumbnail |-> thumbnail]
    ELSE LET nested == Or(Prop(content, "media_thumbnail"), Prop(content, "mediaThumbnail")) IN
      IF ~Truthy(nested) THEN ContentLoop(Tail(contents), thumbnail)
      ELSE LET nestedThumbs == IF IsArray(nested) THEN nested.a ELSE <<nested>> IN
        IF Len(nestedThumbs) = 0 THEN ContentLoop(Tail(contents), thumbnail)
        ELSE LET nThumb == DescriptorUrl(nestedThumbs[1]) IN
          IF Truthy(nThumb) THEN [threw |-> FALSE, thumbnail |-> nThumb]
          ELSE ContentLoop(Tail(contents), nThumb)

\* mutant of Validate: the prefix test is left out
ValidateLengthOnly(thumbnail) ==
  IF thumbnail.t # "string" \/ Len(trim(thumbnail.s)) <= 10 THEN Null ELSE thumbnail

\* the validation gate: a string, trimmed length > 10, http(s) prefix; else null
Validate(thumbnail) ==
  IF thumbnail.t # "string" \/ Len(trim(thumbnail.s)) <= 10 \/ ~HttpRegexTest(thumbnail.s)
  THEN Null
  ELSE thumbnail

\* const desc = item.contentSnippet || item.description || item.content || ''
InlineText(item) ==
  Or(Or(Or(Prop(item, "contentSnippet"), Prop(item, "description")), Prop(item, "content")), Str(<<>>))

\* if (imgMatch && imgMatch[1]) thumbnail = imgMatch[1].trim()
InlineCandidate(imgMatch) ==
  IF imgMatch.found /\ imgMatch.group1 # <<>> THEN Str(trim(imgMatch.group1)) ELSE Null

\* the guard of each branch of the if / else-if chain
BranchGuard(item, b) ==
  CASE b = "enclosure" -> Truthy(OptProp(Prop(item, "enclosure"), "url"))
    [] b = "mediaThumbnail" -> Truthy(Prop(item, "mediaThumbnail"))
    [] b = "mediaContent" -> Truthy(Prop(item, "mediaContent"))
    [] b = "thumbnail" -> Truthy(Prop(item, "thumbnail"))
    [] b = "inline" -> Truthy(Or(Or(Prop(item, "contentSnippet"), Prop(item, "description")), Prop(item, "content")))
    [] OTHER -> TRUE

\* what the body of branch b leaves: the candidate in `thumbnail`, whether it
\* threw, and the item (thumbs.sort sorts the item's own array in place)
BranchOutcomes(item, b) ==
  CASE b = "enclosure" ->
         {[threw |-> FALSE, thumbnail |-> item.enclosure.url, item |-> item]}
    [] b = "mediaThumbnail" ->
         LET mt == item.mediaThumbnail
             thumbs == IF IsArray(mt) THEN mt.a ELSE <<mt>>
         IN IF Len(thumbs) > 0
            THEN {[threw |-> FALSE,
                   thumbnail |-> DescriptorUrl(sortedThumbs[1]),
                   item |-> IF IsArray(mt) THEN [item EXCEPT !.mediaThumbnail = Arr(sortedThumbs)] ELSE item]
                  : sortedThumbs \in SortOutcomes(thumbs)}
            ELSE {[threw |-> FALSE, thumbnail |-> Null, item |-> item]}
    [] b = "mediaContent" ->
         LET mc == item.mediaContent
             r == ContentLoop(IF IsArray(mc) THEN mc.a ELSE <<mc>>, Null)
         IN {[threw |-> r.threw, thumbnail |-> r.thumbnail, item |-> item]}
    [] b = "thumbnail" ->
         {[threw |-> FALSE,
           thumbnail |-> IF item.thumbnail.t = "string" THEN item.thumbnail
                         ELSE Or(Or(OptProp(OptProp(item.thumbnail, "attrs"), "url"), OptProp(item.thumbnail, "url")), Null),
           item |-> item]}
    [] b = "inline" ->
         LET desc == InlineText(item) IN
         IF desc.t # "string" THEN {[threw |-> TRUE, thumbnail |-> Null, item |-> item]}
         ELSE {[threw |-> FALSE, thumbnail |-> InlineCandidate(ImgMatch(desc.s)), item |-> item]}
    [] OTHER -> {[threw |-> FALSE, thumbnail |-> Null, item |-> item]}

Branches == <<"enclosure", "mediaThumbnail", "mediaContent", "thumbnail", "inline", "none">>

\* the first branch, in the given order, whose guard is truthy
FirstBranch(item, order) ==
  order[CHOOSE i \in 1..Len(order) :
          BranchGuard(item, order[i]) /\ \A j \in 1..(i - 1) : ~BranchGuard(item, order[j])]

\* mutant of Branch: media:thumbnail is tested before the enclosure
BranchThumbnailFirst(item) ==
  FirstBranch(item, <<"mediaThumbnail", "enclosure", "mediaContent", "thumbnail", "inline", "none">>)

\* mutant of Branch: a candidate that fails the gate falls through to the
\* next strategy
BranchCascade(item) ==
  LET ok(b) == BranchGuard(item, b) /\ \E o \in BranchOutcomes(item, b) : ~o.threw /\ Validate(o.thumbnail) # Null
      I == 1..Len(Branches)
  IN IF \E i \in I : ok(Branches[i])
     THEN Branches[CHOOSE i \in I : ok(Branches[i]) /\ \A j \in 1..(i - 1) : ~ok(Branches[j])]
     ELSE FirstBranch(item, Branches)

\* the branch the if / else-if chain takes
Branch(item) == FirstBranch(item, Branches)

\* the try block: the chain, then the validation gate.  item.enclosure of a
\* null or undefined item throws.
TryBlock(item) ==
  IF Nullish(item) THEN {[threw |-> TRUE, thumbnail |-> Null, item |-> item]}
  ELSE {[threw |-> o.threw,
         thumbnail |-> IF o.threw THEN o.thumbnail ELSE Validate(o.thumbnail),
         item |-> o.item] : o \in BranchOutcomes(item, Branch(item))}

\* mutant of Catch: the exception is not caught
CatchNothing(o) == o

\* catch (e) { thumbnail = null }
Catch(o) == IF o.threw THEN [threw |-> FALSE, thumbnail |-> Null, item |-> o.item] ELSE o

\* every way a call can end: [threw (the exception left the function),
\* thumbnail (the value returned), item (the argument afterwards)]
extractThumbnailOutcomes(item) == {Catch(o) : o \in TryBlock(item)}

\* the value returned, for an item whose sort is determined
extractThumbnail(item) == (CHOOSE o \in extractThumbnailOutcomes(item) : TRUE).thumbnail

(***************************************************************************)
(* The raw items the extractor is exercised on                             *)
(***************************************************************************)
Ua == HttpPrefix \o <<"x",".","c","o","m","/","a",".","j","p","g">>          \* "http://x.com/a.jpg"
Ub == HttpsPrefix \o <<"y",".","i","o","/","b",".","p","n","g">>          \* "https://y.io/b.png"
Uc == HttpPrefix \o <<"z",".","o","r","g","/","c",".","g","i","f">>          \* "http://z.org/c.gif"
Ud == <<"H","T","T","P","S",":","/","/","W",".","N","E","T","/","D",".","P","N","G">>                \* upper-case scheme
Ue == HttpPrefix \o <<"v",".","t","v","/","e",".","w","e","b","p">>          \* "http://v.tv/e.webp"
UShort == <<"a","b","c">>                            \* "abc"
UTen == HttpPrefix \o <<"a",".","b">>                \* "http://a.b", 10 characters
UEleven == HttpPrefix \o <<"a",".","b","c">>            \* "http://a.bc", 11 characters
URel == <<"/","i","m","g","/","p","i","c","-","l","a","r","g","e",".","p","n","g">>               \* a relative path
ULead == <<" ">> \o Ua                     \* leading blank
UTrail == Ua \o <<" ">>                    \* trailing blank
UPad == HttpPrefix \o <<" "," "," "," ">>  \* 11 characters, 7 after trim
UInline == HttpPrefix \o <<"y",".","c","o","m","/","b",".","p","n","g">>     \* "http://y.com/b.png"

\* <p>hi <img src="http://y.com/b.png"> more</p>
DescImg == <<"<","p",">","h","i"," ","<","i","m","g"," ","s","r","c","=","\"","h","t","t","p",":","/","/","y",".","c","o","m","/","b",".","p","n","g","\"",">"," ","m","o","r","e","<","/","p",">">>
\* <IMG alt='x' SRC = ' abc '><img src="https://y.io/b.png">
DescImgShort == <<"<","I","M","G"," ","a","l","t","=","'","x","'"," ","S","R","C"," ","="," ","'"," ","a","b","c"," ","'",">","<","i","m","g"," ","s","r","c","=","\"","h","t","t","p","s",":","/","/","y",".","i","o","/","b",".","p","n","g","\"",">">>
\* <img data-src="/lazy.png" src='http://z.org/c.gif'>
DescImgTwoSrc == <<"<","i","m","g"," ","d","a","t","a","-","s","r","c","=","\"","/","l","a","z","y",".","p","n","g","\""," ","s","r","c","=","'","h","t","t","p",":","/","/","z",".","o","r","g","/","c",".","g","i","f","'",">">>
\* plain text
DescPlain == <<"h","i"," ","t","h","e","r","e">>

Enclosure(url) == [t |-> "object", url |-> url]

\* <media:thumbnail url=... width=...>
Thumb(url, width) == [t |-> "object", attrs |-> [t |-> "object", url |-> url, width |-> width], url |-> Undef]

\* a descriptor carrying its URL directly
ThumbDirect(url) == [t |-> "object", attrs |-> Undef, url |-> url]

\* <media:content url=...> with nested <media:thumbnail> under either key
Content(url, nestedColon, nestedCamel) ==
  [t |-> "object", attrs |-> [t |-> "object", url |-> url], media_thumbnail |-> nestedColon, mediaThumbnail |-> nestedCamel]

RawItem(title, cs, d, c, link, pubDate, e, mt, mc, th) ==
  [t |-> "object", title |-> title, contentSnippet |-> cs, description |-> d, content |-> c,
   link |-> link, pubDate |-> pubDate, enclosure |-> e, mediaThumbnail |-> mt, mediaContent |-> mc, thumbnail |-> th]

EnclosurePool == {Undef, Enclosure(Undef), Enclosure(Str(Ua)), Enclosure(Str(UShort)), Enclosure(Str(UTrail))}

PositionUrl == <<Str(Ua), Str(Ub), Str(Uc), Str(Ud), Str(Ue)>>

WidthPool == {Undef, Str(<<"2","0","0">>), Str(<<"8","0","0">>), Str(<<"a","b","c">>)}

\* media-thumbnail collections of 1..MaxThumbs descriptors, every width
\* combination, the i-th descriptor carrying the i-th URL
WidthThumbs ==
  UNION {{Arr([i \in 1..n |-> Thumb(PositionUrl[i], w[i])]) : w \in [1..n -> WidthPool]} : n \in 1..MaxThumbs}

\* widths [200, 800, 800, 100]
ExampleThumbs ==
  Arr(<<Thumb(Str(Ua), Str(<<"2","0","0">>)), Thumb(Str(Ub), Str(<<"8","0","0">>)),
        Thumb(Str(Uc), Str(<<"8","0","0">>)), Thumb(Str(Ue), Str(<<"1","0","0">>))>>)

MediaThumbnailPool ==
  {Undef, Arr(<<>>), Str(Ub), Arr(<<Null, ThumbDirect(Str(Uc))>>),
   Arr(<<Thumb(Str(URel), Str(<<"8","0","0">>)), Thumb(Str(Ub), Str(<<"2","0","0">>))>>), ExampleThumbs}

MediaContentPool ==
  {Undef, Arr(<<>>), Content(Str(Uc), Undef, Undef),
   Arr(<<Content(Undef, Thumb(Str(UTen), Undef), Undef), Content(Str(Uc), Undef, Undef)>>),
   Arr(<<Content(Undef, Undef, Arr(<<>>)), Content(Undef, Arr(<<Thumb(Undef, Undef), Thumb(Str(Ua), Undef)>>), Undef),
         Content(Undef, Undef, Arr(<<ThumbDirect(Str(Ub))>>))>>),
   Arr(<<Null, Content(Str(Uc), Undef, Undef)>>),
   Arr(<<Content(Str(Uc), Undef, Undef), Null>>),
   Arr(<<Str(<<>>), Content(Undef, ThumbDirect(Str(Ue)), Undef)>>),
   Arr(<<Content(Str(UPad), Undef, Undef), Content(Str(Uc), Undef, Undef)>>)}

ThumbnailFieldPool == {Undef, Str(<<>>), Str(Ud), Str(ULead), ThumbDirect(Str(UEleven)), Num(42)}

TextPool ==
  {<<Undef, Undef, Undef>>, <<Str(DescPlain), Str(DescImg), Undef>>, <<Undef, Str(DescImg), Undef>>,
   <<Undef, Str(DescImgShort), Undef>>, <<Str(<<>>), Undef, Str(DescImgTwoSrc)>>, <<Undef, Num(5), Str(DescImg)>>}

XItem(e, mt, mc, th, txt) == RawItem(Undef, txt[1], txt[2], txt[3], Undef, Undef, e, mt, mc, th)

\* every combination of the field pools, the width combinations, and the
\* items that are no object at all
XItems ==
  {XItem(e, mt, mc, th, txt) : e \in EnclosurePool, mt \in MediaThumbnailPool, mc \in MediaContentPool,
                               th \in ThumbnailFieldPool, txt \in TextPool}
  \cup {XItem(e, mt, Undef, th, <<Undef, Str(DescImg), Undef>>) :
          e \in {Undef, Enclosure(Str(Uc))}, mt \in WidthThumbs, th \in {Undef, Str(Ud)}}
  \cup {Null, Undef}

(***************************************************************************)
(* The extractor on its own: a raw item is drawn, extractThumbnail is      *)
(* called on it up to MaxCalls times (the same object each time).          *)
(***************************************************************************)
NotCalled == [called |-> FALSE, escaped |-> FALSE, value |-> Null]

NoWorld == [feeds |-> <<>>, search |-> [ok |-> FALSE], img |-> [ok |-> FALSE]]
NoInput == [count |-> Undef]
NoResult == [status |-> "none"]
NotClosed == [closed |-> FALSE]
NoOther == [op |-> "none"]

HandlersIdle ==
  /\ world = NoWorld
  /\ op = "idle"
  /\ input = NoInput
  /\ pc = "idle"
  /\ idx = 0
  /\ allPosts = <<>>
  /\ rssFailed = FALSE
  /\ fetchLog = <<>>
  /\ result = NoResult
  /\ previous = NoResult
  /\ closed = NotClosed
  /\ other = NoOther

InitExtract ==
  /\ xitem \in XItems
  /\ xarg = xitem
  /\ xret = NotCalled
  /\ xcalls = 0
  /\ HandlersIdle

CallExtract ==
  /\ xcalls < MaxCalls
  /\ \E o \in extractThumbnailOutcomes(xitem) :
       /\ xret' = [called |-> TRUE, escaped |-> o.threw, value |-> o.thumbnail]
       /\ xitem' = o.item
  /\ xarg' = xitem
  /\ xcalls' = xcalls + 1
  /\ UNCHANGED <<opvars, previous, closed, other>>

NextExtract == CallExtract

SpecExtract == InitExtract /\ [][NextExtract]_vars

(***************************************************************************)
(* Properties of extractThumbnail                                          *)
(***************************************************************************)
\* an absolute http(s) URL of more than 10 characters
IsHttpUrl(v) ==
  /\ v.t = "string"
  /\ Len(v.s) > 10
  /\ \/ (Len(v.s) >= 7 /\ toLowerCase(SubSeq(v.s, 1, 7)) = <<"h","t","t","p",":","/","/">>)
     \/ (Len(v.s) >= 8 /\ toLowerCase(SubSeq(v.s, 1, 8)) = <<"h","t","t","p","s",":","/","/">>)

\* the candidate passes the gate: a string, more than 10 characters once
\* trimmed, http(s) prefix
PassesGate(v) == IsHttpUrl(v) /\ Len(trim(v.s)) > 10

\* the item's fields, by strategy rank
StrategyFields ==
  <<{"enclosure"}, {"mediaThumbnail"}, {"mediaContent"}, {"thumbnail"}, {"contentSnippet", "description", "content"}>>

\* the field of strategy k is present on the item
FieldPresent(item, k) ==
  IF k = 1 THEN Truthy(OptProp(item.enclosure, "url"))
  ELSE \E f \in StrategyFields[k] : Truthy(item[f])

\* the rank of the highest-priority strategy whose field is present, 6 if none
FirstPresent(item) ==
  IF \E k \in 1..5 : FieldPresent(item, k)
  THEN CHOOSE k \in 1..5 : FieldPresent(item, k) /\ \A j \in 1..(k - 1) : ~FieldPresent(item, j)
  ELSE 6

\* the item with the fields of every strategy ranked below k removed
EraseBelow(item, k) ==
  [f \in DOMAIN item |->
     IF \E j \in (k + 1)..5 : f \in StrategyFields[j] THEN Undef ELSE item[f]]

\* C5: whatever the raw item, the value extractThumbnail returns is null or a
\* string that starts with http:// or https:// (any case) and is longer than
\* 10 characters.
C5_ThumbnailValidated == xret.called => (xret.value = Null \/ IsHttpUrl(xret.value))

\* a candidate with a trailing blank was accepted and returned as it is
C5_Witness == xret.called /\ xret.value = Str(UTrail) /\ Branch(xarg) = "enclosure"

\* C7: the strategies are tried in the order enclosure > media-thumbnail >
\* media-content > thumbnail field > inline image, and the candidate comes only
\* from the first one whose field is present: the result does not depend on
\* the fields of the lower strategies, and an item with an enclosure URL yields
\* that URL verbatim (or null when it fails the gate).
C7_PriorityOrder ==
  (xret.called /\ ~Nullish(xarg)) =>
    /\ FieldPresent(xarg, 1) =>
         xret.value = IF PassesGate(xarg.enclosure.url) THEN xarg.enclosure.url ELSE Null
    /\ xret.value \in {o.thumbnail : o \in extractThumbnailOutcomes(EraseBelow(xarg, FirstPresent(xarg)))}

\* an enclosure URL was returned verbatim although the item also carries a
\* media-thumbnail collection, media-content, a thumbnail field and an inline image
C7_Witness ==
  /\ xret.called /\ ~Nullish(xarg)
  /\ xarg.enclosure = Enclosure(Str(UTrail))
  /\ xarg.mediaThumbnail = ExampleThumbs
  /\ Truthy(xarg.mediaContent) /\ Truthy(xarg.thumbnail) /\ Truthy(xarg.description)
  /\ xret.value = Str(UTrail)

\* the declared width of a descriptor as a number, a missing or non-numeric
\* width counting as 0
DeclaredWidth(d) ==
  LET w == parseInt(Or(OptProp(OptProp(d, "attrs"), "width"), Zero)) IN IF w.nan THEN 0 ELSE w.n

\* the first descriptor, in the item's order, among those of the largest width
LargestFirst(thumbs) ==
  CHOOSE i \in 1..Len(thumbs) :
    /\ \A j \in 1..Len(thumbs) : DeclaredWidth(thumbs[j]) <= DeclaredWidth(thumbs[i])
    /\ \A j \in 1..(i - 1) : DeclaredWidth(thumbs[j]) < DeclaredWidth(thumbs[i])

\* C8: when the media-thumbnail strategy applies, the URL taken is that of the
\* descriptor with the numerically largest width (missing or non-numeric width
\* as 0), the first such descriptor in the item's order; stated for the items
\* whose sort order the language determines.
C8_LargestWidthFirst ==
  (/\ xret.called /\ ~Nullish(xarg)
   /\ FirstPresent(xarg) = 2
   /\ IsArray(xarg.mediaThumbnail)
   /\ Len(xarg.mediaThumbnail.a) > 0
   /\ ConsistentComparator(xarg.mediaThumbnail.a))
  => LET u == DescriptorUrl(xarg.mediaThumbnail.a[LargestFirst(xarg.mediaThumbnail.a)])
     IN xret.value = IF PassesGate(u) THEN u ELSE Null

\* C9: when the candidate of the highest-priority strategy whose field is
\* present fails the gate, the result is null, whatever a lower strategy
\* would have produced.
C9_NoFallThrough ==
  (/\ xret.called /\ ~Nullish(xarg)
   /\ FirstPresent(xarg) <= 5
   /\ \A o \in BranchOutcomes(xarg, Branches[FirstPresent(xarg)]) : ~o.threw /\ ~PassesGate(o.thumbnail))
  => xret.value = Null

\* the enclosure URL "abc" fails the gate and null is returned although the
\* media-thumbnail collection of the item holds valid URLs
C9_Witness ==
  /\ xret.called /\ ~Nullish(xarg)
  /\ xarg.enclosure = Enclosure(Str(UShort))
  /\ xarg.mediaThumbnail = ExampleThumbs
  /\ xret.value = Null

\* C10: extractThumbnail never throws: no exception leaves it, and a call
\* whose try block failed returns null.
C10_NeverThrows ==
  xret.called =>
    /\ ~xret.escaped
    /\ (\E o \in TryBlock(xarg) : o.threw) => xret.value = Null

\* calls on a null item, on an item whose description is a number, and on an
\* item with a null media:content entry all returned null
C10_Witness ==
  /\ xret.called /\ ~xret.escaped /\ xret.value = Null
  /\ \/ xarg = Null
     \/ ~Nullish(xarg) /\ Branch(xarg) = "inline" /\ xarg.description = Num(5)

(***************************************************************************)
(* URLs and the source label                                               *)
(***************************************************************************)
\* s.indexOf(pat) + 1: the first position at which pat occurs in s, 0 if none
IndexOf(s, pat) ==
  LET at == {i \in 1..(Len(s) - Len(pat) + 1) : SubSeq(s, i, i + Len(pat) - 1) = pat}
  IN IF at = {} THEN 0 ELSE CHOOSE i \in at : \A j \in at : i <= j

\* s.replace(pat, rep) with a string pattern: the first occurrence only
replace(s, pat, rep) ==
  LET i == IndexOf(s, pat)
  IN IF i = 0 THEN s ELSE SubSeq(s, 1, i - 1) \o rep \o SubSeq(s, i + Len(pat), Len(s))

\* new URL(url) succeeds: an absolute URL, scheme://host...
UrlParses(url) == IndexOf(url, <<":","/","/">>) > 1 /\ IndexOf(url, <<":","/","/">>) + 3 <= Len(url)

\* new URL(url).hostname: the host in lower case, without port, path or query
hostname(url) ==
  LET rest == SubSeq(url, IndexOf(url, <<":","/","/">>) + 3, Len(url))
      stops == {i \in 1..Len(rest) : rest[i] \in {"/", "?", "#", ":"}}
      end == IF stops = {} THEN Len(rest) ELSE (CHOOSE i \in stops : \A j \in stops : i <= j) - 1
  IN toLowerCase(SubSeq(rest, 1, end))

Www == <<"w","w","w",".">>
Unknown == <<"U","n","k","n","o","w","n">>

\* (() => { try { return new URL(url).hostname.replace('www.', ''); } catch { return 'Unknown'; } })()
SourceLabel(url) == IF UrlParses(url) THEN Str(replace(hostname(url), Www, <<>>)) ELSE Str(Unknown)

memeFeeds == <<<<"h","t","t","p","s",":","/","/","m","e","m","e","b","a","s","e",".","c","h","e","e","z","b","u","r","g","e","r",".","c","o","m","/","r","s","s">>, <<"h","t","t","p","s",":","/","/","w","w","w",".","r","e","d","d","i","t",".","c","o","m","/","r","/","m","e","m","e","s","/",".","r","s","s">>>>
storyFeedsMicro == <<<<"h","t","t","p","s",":","/","/","w","w","w",".","f","i","c","t","i","o","n","o","n","t","h","e","w","e","b",".","c","o",".","u","k","/","f","e","e","d","s","/","p","o","s","t","s","/","d","e","f","a","u","l","t","?","a","l","t","=","r","s","s">>>>
storyFeedsLiterary == <<<<"h","t","t","p","s",":","/","/","a","m","e","r","i","c","a","n","s","h","o","r","t","f","i","c","t","i","o","n",".","o","r","g","/","f","e","e","d","/">>>>
aiFeeds == <<<<"h","t","t","p","s",":","/","/","w","w","w",".","t","e","c","h","n","o","l","o","g","y","r","e","v","i","e","w",".","c","o","m","/","f","e","e","d","/">>, <<"h","t","t","p","s",":","/","/","o","p","e","n","a","i",".","c","o","m","/","b","l","o","g","/","r","s","s","/">>>>
scienceFeeds == <<<<"h","t","t","p","s",":","/","/","w","w","w",".","n","a","t","u","r","e",".","c","o","m","/","n","a","t","u","r","e",".","r","s","s">>, <<"h","t","t","p","s",":","/","/","w","w","w",".","s","c","i","e","n","c","e","m","a","g",".","o","r","g","/","r","s","s","/","n","e","w","s","_","c","u","r","r","e","n","t",".","x","m","l">>>>
viralFeedsBuzz == <<<<"h","t","t","p",":","/","/","f","e","e","d","s",".","m","a","s","h","a","b","l","e",".","c","o","m","/","M","a","s","h","a","b","l","e">>>>
viralFeedsTech == <<<<"h","t","t","p","s",":","/","/","g","i","z","m","o","d","o",".","c","o","m","/","r","s","s">>>>

UntitledMeme == <<"U","n","t","i","t","l","e","d"," ","M","e","m","e">>
UntitledStory == <<"U","n","t","i","t","l","e","d"," ","S","t","o","r","y">>
BreakthroughPost == <<"B","r","e","a","k","t","h","r","o","u","g","h"," ","P","o","s","t">>
ViralPost == <<"V","i","r","a","l"," ","P","o","s","t">>
UntitledXPost == <<"U","n","t","i","t","l","e","d"," ","X"," ","P","o","s","t">>
SearchResult == <<"S","e","a","r","c","h"," ","R","e","s","u","l","t">>
GeneratedPost == <<"G","e","n","e","r","a","t","e","d"," ","P","o","s","t">>
Hash == <<"#">>

(***************************************************************************)
(* Records and the steps every feed handler shares                         *)
(***************************************************************************)
Min(a, b) == IF a < b THEN a ELSE b
Max(a, b) == IF a > b THEN a ELSE b

\* arr.slice(start, end) for integer arguments (a negative index counts from the end)
slice(arr, start, end) ==
  LET n == Len(arr)
      from == IF start < 0 THEN Max(n + start, 0) ELSE Min(start, n)
      to == IF end < 0 THEN Max(n + end, 0) ELSE Min(end, n)
  IN SubSeq(arr, from + 1, to)

\* the object literal of the item mapping, the source label given
Record(item, placeholder, source) ==
  [title |-> Or(Prop(item, "title"), Str(placeholder)),
   description |-> Or(Or(Prop(item, "contentSnippet"), Prop(item, "description")), Str(<<>>)),
   link |-> Or(Prop(item, "link"), Str(Hash)),
   pubDate |-> Or(Prop(item, "pubDate"), Str(<<>>)),
   _source |-> source,
   thumbnail |-> extractThumbnail(item)]

\* (feed.items || []).slice(0, count).map(item => ({...}))
MapItems(items, count, placeholder, source) ==
  LET taken == slice(items, 0, count)
  IN [i \in 1..Len(taken) |-> Record(taken[i], placeholder, source)]

\* self.findIndex(t => t.title.toLowerCase() === post.title.toLowerCase()) + 1
findIndexByTitle(self, post) ==
  CHOOSE i \in 1..Len(self) :
    /\ toLowerCase(self[i].title.s) = toLowerCase(post.title.s)
    /\ \A j \in 1..(i - 1) : toLowerCase(self[j].title.s) # toLowerCase(post.title.s)

RECURSIVE FilterSeq(_, _)
\* the elements of arr at the positions in keep, in order
FilterSeq(arr, keep) ==
  IF arr = <<>> THEN <<>>
  ELSE LET rest == FilterSeq(SubSeq(arr, 1, Len(arr) - 1), keep)
       IN IF Len(arr) \in keep THEN Append(rest, arr[Len(arr)]) ELSE rest

\* all.filter((post, idx, self) => idx === self.findIndex(...))
Dedupe(all) == FilterSeq(all, {i \in 1..Len(all) : i = findIndexByTitle(all, all[i])})

(***************************************************************************)
(* What the network answers during one invocation                          *)
(***************************************************************************)
TitleCat == <<"C","a","t"," ","m","e","m","e">>
TitleCatUpper == <<"C","A","T"," ","M","E","M","E">>
SnippetFunny == <<"a"," ","f","u","n","n","y"," ","c","a","t">>
Link1 == <<"h","t","t","p","s",":","/","/","a",".","e","x","a","m","p","l","e","/","1">>
Link2 == <<"h","t","t","p","s",":","/","/","a",".","e","x","a","m","p","l","e","/","2">>
Date1 == <<"S","a","t",","," ","1","1"," ","O","c","t"," ","2","0","2","5"," ","1","0",":","0","0",":","0","0"," ","G","M","T">>

\* "Cat meme" with an enclosure, a plain-text snippet and markup
ItemCat ==
  RawItem(Str(TitleCat), Str(SnippetFunny), Str(DescImg), Undef, Str(Link1), Str(Date1),
          Enclosure(Str(Ua)), Undef, Undef, Undef)

\* the same title in upper case, another body, an inline image only
ItemCatUpper ==
  RawItem(Str(TitleCatUpper), Undef, Str(DescImg), Undef, Str(Link2), Undef, Undef, Undef, Undef, Undef)

\* no title, no description, no link, no date; a relative media:thumbnail URL
ItemBare ==
  RawItem(Undef, Undef, Undef, Undef, Undef, Undef, Undef,
          Arr(<<Thumb(Str(URel), Str(<<"8","0","0">>)), Thumb(Str(Ub), Str(<<"2","0","0">>))>>), Undef, Undef)

FeedItemPool == {ItemCat, ItemCatUpper, ItemBare}

\* the feeds a source can serve: up to MaxItems different items, in any order
FeedItemLists ==
  UNION {{s \in [1..n -> FeedItemPool] : \A i, j \in 1..n : s[i] = s[j] => i = j} : n \in 0..MaxItems}

Failed == [ok |-> FALSE, items |-> <<>>]
Fetched(items) == [ok |-> TRUE, items |-> items]

\* parser.parseURL(url) rejects (network or parse failure) or resolves to a feed
FeedOutcomes == {Failed} \cup {Fetched(s) : s \in FeedItemLists}

\* the answers to the search request and to the image lookup
NoSearch == [ok |-> FALSE]
NoImage == [ok |-> FALSE]

FeedWorlds(n) == {[feeds |-> f, search |-> NoSearch, img |-> NoImage] : f \in [1..n -> FeedOutcomes]}

(***************************************************************************)
(* Inputs and results                                                      *)
(***************************************************************************)
Counts == {Num(k) : k \in 0..MaxCount}

\* the handler has returned: the structured payload (absent for an error
\* result) and the number of text blocks of the rendering
Returned(key, records, blocks) ==
  [status |-> "returned", isError |-> FALSE, structured |-> TRUE, key |-> key, records |-> records, blocks |-> blocks]

\* { content: [{ type: 'text', text: `Error ...` }], isError: true }
ErrorResult == [status |-> "returned", isError |-> TRUE, structured |-> FALSE, key |-> "", records |-> <<>>, blocks |-> 1]

\* an exception left the handler
Thrown == [status |-> "threw", isError |-> FALSE, structured |-> FALSE, key |-> "", records |-> <<>>, blocks |-> 0]

\* const { count = d } = input
CountOr(d) == IF input.count.t = "undefined" THEN d ELSE input.count.n

Start(o, i, w, first) ==
  /\ op' = o
  /\ input' = i
  /\ world' = w
  /\ pc' = first
  /\ idx' = 1
  /\ allPosts' = <<>>
  /\ rssFailed' = TRUE
  /\ fetchLog' = <<>>
  /\ result' = NoResult
  /\ UNCHANGED xvars

\* mutant of TryFetchSource: the list of the source that answered last is
\* put in front of the accumulator
TryFetchSourceNewestFirst(n, count, placeholder, source) ==
  /\ idx <= n
  /\ fetchLog' = Append(fetchLog, [kind |-> "feed", source |-> idx])
  /\ allPosts' = IF world.feeds[idx].ok
                 THEN MapItems(world.feeds[idx].items, count, placeholder, source) \o allPosts
                 ELSE allPosts
  /\ idx' = idx + 1
  /\ pc' = IF idx = n THEN "return" ELSE "loop"
  /\ UNCHANGED <<xvars, world, op, input, rssFailed, result>>

\* mutant of TryFetchSource: a source whose fetch failed is fetched once more
TryFetchSourceRetry(n, count, placeholder, source) ==
  /\ idx <= n
  /\ fetchLog' = Append(fetchLog, [kind |-> "feed", source |-> idx])
  /\ allPosts' = IF world.feeds[idx].ok
                 THEN allPosts \o MapItems(world.feeds[idx].items, count, placeholder, source)
                 ELSE allPosts
  /\ LET again == ~world.feeds[idx].ok /\ (fetchLog = <<>> \/ fetchLog[Len(fetchLog)].source # idx)
     IN /\ idx' = IF again THEN idx ELSE idx + 1
        /\ pc' = IF idx = n /\ ~again THEN "return" ELSE "loop"
  /\ UNCHANGED <<xvars, world, op, input, rssFailed, result>>

\* one pass of: for (const url of urls) { try { const feed = await
\* parser.parseURL(url); ... allPosts = allPosts.concat(posts) } catch (e) { warn } }
\* over the idx-th of n URLs
TryFetchSource(n, count, placeholder, source) ==
  /\ idx <= n
  /\ fetchLog' = Append(fetchLog, [kind |-> "feed", source |-> idx])
  /\ allPosts' = IF world.feeds[idx].ok
                 THEN allPosts \o MapItems(world.feeds[idx].items, count, placeholder, source)
                 ELSE allPosts
  /\ idx' = idx + 1
  /\ pc' = IF idx = n THEN "return" ELSE "loop"
  /\ UNCHANGED <<xvars, world, op, input, rssFailed, result>>

\* mutant of ReturnUnique: the list is truncated before it is deduplicated
ReturnUniqueSliceFirst(key, count) ==
  /\ pc = "return"
  /\ result' = Returned(key, Dedupe(slice(allPosts, 0, count)), 1)
  /\ pc' = "done"
  /\ UNCHANGED <<xvars, world, op, input, idx, allPosts, rssFailed, fetchLog>>

\* dedupe, slice, return { content: [{ text: JSON.stringify(output) }], structuredContent: output }
ReturnUnique(key, count) ==
  /\ pc = "return"
  /\ result' = Returned(key, slice(Dedupe(allPosts), 0, count), 1)
  /\ pc' = "done"
  /\ UNCHANGED <<xvars, world, op, input, idx, allPosts, rssFailed, fetchLog>>

DefaultCount == 10

(***************************************************************************)
(* server.ts: fetch_memes, fetch_stories, fetch_ai_science                 *)
(***************************************************************************)
fetch_memes_invoke ==
  /\ pc = "idle"
  /\ \E c \in Counts, w \in FeedWorlds(2) : Start("fetch_memes", [count |-> c], w, "loop")

fetch_memes_loop ==
  /\ op = "fetch_memes" /\ pc = "loop"
  /\ TryFetchSource(Len(memeFeeds), CountOr(DefaultCount), UntitledMeme, SourceLabel(memeFeeds[idx]))

fetch_memes_return == op = "fetch_memes" /\ ReturnUnique("memes", CountOr(DefaultCount))

storyFeeds == IF input.genre = "micro" THEN storyFeedsMicro ELSE storyFeedsLiterary

fetch_stories_invoke ==
  /\ pc = "idle"
  /\ \E c \in Counts, g \in {"micro", "literary"}, w \in FeedWorlds(1) :
    Start("fetch_stories", [count |-> c, genre |-> g], w, "loop")

fetch_stories_loop ==
  /\ op = "fetch_stories" /\ pc = "loop"
  /\ TryFetchSource(Len(storyFeeds), CountOr(DefaultCount), UntitledStory, SourceLabel(storyFeeds[idx]))

fetch_stories_return == op = "fetch_stories" /\ ReturnUnique("stories", CountOr(DefaultCount))

feeds == IF input.type = "ai" THEN aiFeeds ELSE scienceFeeds

fetch_ai_science_invoke ==
  /\ pc = "idle"
  /\ \E c \in Counts, ty \in {"ai", "science"}, w \in FeedWorlds(2) :
    Start("fetch_ai_science", [count |-> c, type |-> ty], w, "loop")

fetch_ai_science_loop ==
  /\ op = "fetch_ai_science" /\ pc = "loop"
  /\ TryFetchSource(Len(feeds), CountOr(DefaultCount), BreakthroughPost, SourceLabel(feeds[idx]))

fetch_ai_science_return == op = "fetch_ai_science" /\ ReturnUnique("posts", CountOr(DefaultCount))

(***************************************************************************)
(* server.ts: fetch_x_posts                                                *)
(***************************************************************************)
XFresh == <<"X"," ","(","f","r","e","s","h",")">>
XViaRssBridge == <<"X"," ","(","v","i","a"," ","R","S","S"," ","B","r","i","d","g","e",")">>
XViaProxy == <<"X"," ","(","v","i","a"," ","P","r","o","x","y",")">>

MockPost(title, description, link, pubDate, thumbnail) ==
  [title |-> Str(title), description |-> Str(description), link |-> Str(link), pubDate |-> Str(pubDate),
   _source |-> Str(XFresh), thumbnail |-> thumbnail]

\* the eight literal fallback posts (the dashes of two descriptions are
\* written as hyphens)
mockPosts ==
  <<
    MockPost(<<"Z","a","m","a"," ","F","H","E"," ","o","n"," ","P","r","i","v","a","c","y"," ","E","n","g","i","n","e"," ","G","r","i","n","d">>,
             <<"@","z","a","m","a","_","f","h","e",":"," ","F","H","E"," ","b","r","e","a","k","t","h","r","o","u","g","h","s"," ","i","n"," ","E","u","r","o","c","r","y","p","t"," ","2","0","2","5","-","n","o","i","s","e"," ","r","e","d","u","c","e","d",","," ","9","0","%"," ","b","l","o","c","k","c","h","a","i","n"," ","t","x","s"," ","e","n","c","r","y","p","t","e","d"," ","s","o","o","n","."," ","B","u","l","l","i","s","h"," ","o","n"," ","d","A","p","p","s","?"," ","#","Z","a","m","a","C","r","e","a","t","o","r","P","r","o","g","r","a","m">>,
             <<"h","t","t","p","s",":","/","/","x",".","c","o","m","/","g","o","d","o","f","p","r","o","m","p","t","/","s","t","a","t","u","s","/","1","9","7","6","3","4","9","2","7","4","3","0","5","8","5","5","9","3","7">>,
             <<"2","0","2","5","-","1","0","-","0","9","T","1","8",":","0","9",":","2","0","Z">>,
             Str(<<"h","t","t","p","s",":","/","/","p","b","s",".","t","w","i","m","g",".","c","o","m","/","m","e","d","i","a","/","G","2","1","n","M","D","s","W","c","A","A","k","e","h","U",".","j","p","g">>)),
    MockPost(<<"P","r","a","c","t","i","c","a","l"," ","Q","u","a","n","t","u","m"," ","C","o","m","p","u","t","e","r","s"," ","i","n"," ","2"," ","Y","e","a","r","s">>,
             <<"I","m","p","a","c","t"," ","o","n"," ","A","I",","," ","a","g","e"," ","r","e","v","e","r","s","a","l",","," ","d","i","s","e","a","s","e"," ","c","u","r","e","s",","," ","g","e","n","o","m","e"," ","e","d","i","t","i","n","g",","," ","e","n","e","r","g","y"," ","p","r","o","d","u","c","t","i","o","n",".",".","."," ","t","h","e"," ","l","i","s","t"," ","g","o","e","s"," ","o","n",".">>,
             <<"h","t","t","p","s",":","/","/","x",".","c","o","m","/","J","u","b","a","l","_","H","a","r","d","i","n","/","s","t","a","t","u","s","/","1","9","7","3","7","8","3","1","7","0","0","7","7","4","1","3","7","5","6">>,
             <<"2","0","2","5","-","1","0","-","0","2","T","1","6",":","1","2",":","3","3","Z">>,
             Null),
    MockPost(<<"G","P","T","-","5"," ","R","e","l","e","a","s","e","d"," ","i","n"," ","O","c","t","o","b","e","r"," ","2","0","2","5">>,
             <<"9","4",".","6","%"," ","A","I","M","E"," ","a","c","c","u","r","a","c","y",","," ","p","r","o","c","e","s","s","e","s"," ","t","e","x","t","/","i","m","a","g","e","s","/","a","u","d","i","o","/","v","i","d","e","o","."," ","S","u","p","e","r","i","o","r"," ","r","e","a","s","o","n","i","n","g"," ","a","c","r","o","s","s"," ","b","e","n","c","h","m","a","r","k","s",".">>,
             <<"h","t","t","p","s",":","/","/","x",".","c","o","m","/","F","T","a","y","A","I","/","s","t","a","t","u","s","/","1","9","7","6","4","9","8","0","1","7","7","4","3","1","2","6","7","6","5">>,
             <<"2","0","2","5","-","1","0","-","1","0","T","0","4",":","0","0",":","2","3","Z">>,
             Null),
    MockPost(<<"M","I","T"," ","2","6","-","P","a","g","e"," ","A","I"," ","R","e","p","o","r","t"," ","(","2","0","2","5",")">>,
             <<"F","r","e","s","h"," ","i","n","s","i","g","h","t","s"," ","i","n","t","o"," ","w","h","e","r","e"," ","A","I"," ","i","s"," ","h","e","a","d","e","d","."," ","W","o","r","t","h"," ","a"," ","r","e","a","d",".">>,
             <<"h","t","t","p","s",":","/","/","x",".","c","o","m","/","s","h","e","d","n","t","c","a","r","e","_","/","s","t","a","t","u","s","/","1","9","7","3","3","3","0","0","3","0","0","8","5","4","1","5","0","0","6">>,
             <<"2","0","2","5","-","1","0","-","0","1","T","1","0",":","1","1",":","5","6","Z">>,
             Str(<<"h","t","t","p","s",":","/","/","p","b","s",".","t","w","i","m","g",".","c","o","m","/","m","e","d","i","a","/","G","2","K","t","N","D","s","X","Q","A","A","H","A","W","8",".","j","p","g">>)),
    MockPost(<<"A","M","D"," ","I","n","s","t","i","n","c","t"," ","M","I","3","5","0",":"," ","G","a","m","e","-","C","h","a","n","g","e","r"," ","f","o","r"," ","A","I"," ","I","n","f","r","a">>,
             <<"T","r","a","i","n"," ","f","a","s","t","e","r",","," ","r","u","n"," ","b","i","g","g","e","r"," ","m","o","d","e","l","s",","," ","s","c","a","l","e"," ","s","m","a","r","t","e","r","-","n","o"," ","v","e","n","d","o","r"," ","l","o","c","k","-","i","n",".">>,
             <<"h","t","t","p","s",":","/","/","x",".","c","o","m","/","A","M","D","/","s","t","a","t","u","s","/","1","9","7","3","3","8","7","5","8","7","9","3","5","9","8","1","6","9","6">>,
             <<"2","0","2","5","-","1","0","-","0","1","T","1","4",":","0","0",":","3","9","Z">>,
             Str(<<"h","t","t","p","s",":","/","/","p","b","s",".","t","w","i","m","g",".","c","o","m","/","m","e","d","i","a","/","G","2","L","h","i","X","d","X","s","A","A","e","E","-","K",".","j","p","g">>)),
    MockPost(<<"A","I"," ","R","e","i","n","v","e","n","t","i","n","g"," ","S","c","i","e","n","t","i","f","i","c"," ","D","i","s","c","o","v","e","r","y">>,
             <<"I","n","s","i","l","i","c","o","'","s"," ","A","I"," ","d","r","u","g"," ","i","n"," ","P","h","a","s","e"," ","I","I","a",","," ","f","u","s","i","o","n"," ","p","l","a","s","m","a"," ","c","o","n","t","r","o","l"," ","s","o","l","v","e","d",","," ","E","C","M","W","F"," ","A","I"," ","f","o","r","e","c","a","s","t","s"," ","i","n"," ","8"," ","m","i","n",".",".",".">>,
             <<"h","t","t","p","s",":","/","/","x",".","c","o","m","/","I","t","s","M","r","M","e","t","a","v","e","r","s","e","/","s","t","a","t","u","s","/","1","9","7","5","9","2","0","9","5","4","6","4","8","7","3","6","1","0","2">>,
             <<"2","0","2","5","-","1","0","-","0","8","T","1","3",":","4","7",":","2","1","Z">>,
             Str(<<"h","t","t","p","s",":","/","/","p","b","s",".","t","w","i","m","g",".","c","o","m","/","m","e","d","i","a","/","G","2","v","h","o","l","B","X","A","A","A","q","M","R","a",".","j","p","g">>)),
    MockPost(<<"G","P","T","-","5"," ","P","r","o"," ","M","a","k","e","s"," ","N","o","v","e","l"," ","S","c","i","e","n","t","i","f","i","c"," ","D","i","s","c","o","v","e","r","i","e","s">>,
             <<"S","u","r","p","r","i","s","i","n","g",":"," ","S","m","a","l","l"," ","m","o","d","e","l","s"," ","t","h","i","n","k","i","n","g"," ","<","4","0"," ","m","i","n"," ","i","n","v","e","n","t"," ","n","e","w"," ","s","c","i","e","n","c","e","."," ","O","p","e","n","A","I"," ","f","o","r"," ","S","c","i","e","n","c","e"," ","i","n","c","o","m","i","n","g",".">>,
             <<"h","t","t","p","s",":","/","/","x",".","c","o","m","/","d","e","r","e","d","l","e","r","i","t","t","3","r","/","s","t","a","t","u","s","/","1","9","7","3","3","7","4","6","3","5","4","2","6","0","8","7","1","3","0">>,
             <<"2","0","2","5","-","1","0","-","0","1","T","1","3",":","0","9",":","1","1","Z">>,
             Null),
    MockPost(<<"A","I"," ","R","i","p","p","l","e"," ","E","f","f","e","c","t","s",":"," ","R","o","b","o","t","i","c","s"," ","t","o"," ","S","i","m","u","l","a","t","i","o","n","s">>,
             <<"-"," ","R","o","b","o","t","i","c","s"," ","-"," ","Q","u","a","n","t","u","m"," ","C","o","m","p","u","t","i","n","g"," ","-"," ","A","u","t","o","n","o","m","o","u","s"," ","V","e","h","i","c","l","e","s"," ","-"," ","S","i","m","u","l","a","t","i","o","n","s"," ","(","f","r","o","m"," ","w","o","r","l","d"," ","m","o","d","e","l","s",")","."," ","A","l","l"," ","f","r","o","m"," ","A","I",".">>,
             <<"h","t","t","p","s",":","/","/","x",".","c","o","m","/","i","a","m","K","i","e","r","r","a","D","/","s","t","a","t","u","s","/","1","9","7","4","4","8","4","3","0","8","5","1","8","7","0","7","2","1","7">>,
             <<"2","0","2","5","-","1","0","-","0","4","T","1","4",":","3","8",":","3","7","Z">>,
             Null)
  >>

\* [...list].sort(() => Math.random() - 0.5) leaves an order that depends on
\* the engine and on the random draws: any permutation.  These are the first
\* n elements of the orders it can leave.
ShuffledPrefixes(list, n) ==
  LET m == Min(n, Len(list))
  IN {[k \in 1..m |-> list[p[k]]] :
        p \in {q \in [1..m -> 1..Len(list)] : \A i, j \in 1..m : q[i] = q[j] => i = j}}

fetch_x_posts_invoke ==
  /\ pc = "idle"
  /\ \E c \in Counts, w \in FeedWorlds(1) : Start("fetch_x_posts", [count |-> c], w, "loop")

\* the single pass of the loop over xFeeds: success sets rssFailed = false and breaks
fetch_x_posts_loop ==
  /\ op = "fetch_x_posts" /\ pc = "loop"
  /\ fetchLog' = Append(fetchLog, [kind |-> "feed", source |-> idx])
  /\ allPosts' = IF world.feeds[idx].ok
                 THEN allPosts \o MapItems(world.feeds[idx].items, CountOr(DefaultCount), UntitledXPost, Str(XViaRssBridge))
                 ELSE allPosts
  /\ rssFailed' = ~world.feeds[idx].ok
  /\ idx' = idx + 1
  /\ pc' = "return"
  /\ UNCHANGED <<xvars, world, op, input, result>>

\* mutant of fetch_x_posts_return: the built-in posts fill up a short live list
fetch_x_posts_return_filled ==
  /\ op = "fetch_x_posts" /\ pc = "return"
  /\ \E fresh \in ShuffledPrefixes(mockPosts, CountOr(DefaultCount)) :
       /\ allPosts' = IF rssFailed \/ Len(allPosts) < CountOr(DefaultCount) THEN allPosts \o fresh ELSE allPosts
       /\ result' = Returned("posts", slice(Dedupe(allPosts'), 0, CountOr(DefaultCount)), 1)
  /\ pc' = "done"
  /\ UNCHANGED <<xvars, world, op, input, idx, rssFailed, fetchLog>>

\* if (rssFailed || allPosts.length === 0) allPosts = shuffled.slice(0, count);
\* then dedupe, slice and return
fetch_x_posts_return ==
  /\ op = "fetch_x_posts" /\ pc = "return"
  /\ \E fresh \in ShuffledPrefixes(mockPosts, CountOr(DefaultCount)) :
       /\ allPosts' = IF rssFailed \/ Len(allPosts) = 0 THEN fresh ELSE allPosts
       /\ result' = Returned("posts", slice(Dedupe(allPosts'), 0, CountOr(DefaultCount)), 1)
  /\ pc' = "done"
  /\ UNCHANGED <<xvars, world, op, input, idx, rssFailed, fetchLog>>

(***************************************************************************)
(* server.ts: personalize_feed                                             *)
(***************************************************************************)
UserQueries == {<<>>, <<"c","a","t">>, <<" ","G","P","T"," ">>}

\* filterByQuery: case-insensitive, title or description
filterByQuery(items, userQuery) ==
  IF trim(userQuery) = <<>> THEN items
  ELSE LET qLower == trim(toLowerCase(userQuery))
       IN FilterSeq(items, {i \in 1..Len(items) :
                              \/ includes(toLowerCase(items[i].title.s), qLower)
                              \/ includes(toLowerCase(items[i].description.s), qLower)})

personalizeFeeds ==
  CASE input.baseInterest = "memes" -> memeFeeds
    [] input.baseInterest = "stories" -> storyFeedsMicro
    [] input.baseInterest = "ai-science" -> aiFeeds
    [] OTHER -> <<<<>>>>

personalizePlaceholder ==
  CASE input.baseInterest = "memes" -> UntitledMeme
    [] input.baseInterest = "stories" -> UntitledStory
    [] input.baseInterest = "ai-science" -> BreakthroughPost
    [] OTHER -> UntitledXPost

personalize_feed_invoke ==
  /\ pc = "idle"
  /\ \E c \in Counts, b \in {"memes", "stories", "ai-science", "x-posts"}, q \in UserQueries :
       \E w \in FeedWorlds(IF b \in {"memes", "ai-science"} THEN 2 ELSE 1) :
         Start("personalize_feed", [count |-> c, baseInterest |-> b, userQuery |-> q], w, "loop")

\* one pass of the loop of the memes, stories or ai-science case: the fetch is
\* not guarded, so a rejection leaves the switch for the outer catch, which
\* sets allPosts = []; after the last pass allPosts = filterByQuery(allPosts)
personalize_feed_loop ==
  /\ op = "personalize_feed" /\ pc = "loop" /\ input.baseInterest # "x-posts"
  /\ idx <= Len(personalizeFeeds)
  /\ fetchLog' = Append(fetchLog, [kind |-> "feed", source |-> idx])
  /\ IF world.feeds[idx].ok
     THEN LET all == allPosts \o MapItems(world.feeds[idx].items, CountOr(DefaultCount), personalizePlaceholder,
                                          SourceLabel(personalizeFeeds[idx]))
          IN /\ allPosts' = IF idx = Len(personalizeFeeds) THEN filterByQuery(all, input.userQuery) ELSE all
             /\ idx' = idx + 1
             /\ pc' = IF idx = Len(personalizeFeeds) THEN "return" ELSE "loop"
     ELSE /\ allPosts' = <<>>
          /\ idx' = idx
          /\ pc' = "return"
  /\ UNCHANGED <<xvars, world, op, input, rssFailed, result>>

\* the x-posts case: the single guarded fetch
personalize_feed_x_loop ==
  /\ op = "personalize_feed" /\ pc = "loop" /\ input.baseInterest = "x-posts"
  /\ fetchLog' = Append(fetchLog, [kind |-> "feed", source |-> idx])
  /\ allPosts' = IF world.feeds[idx].ok
                 THEN allPosts \o MapItems(world.feeds[idx].items, CountOr(DefaultCount), UntitledXPost, Str(XViaProxy))
                 ELSE allPosts
  /\ rssFailed' = ~world.feeds[idx].ok
  /\ idx' = idx + 1
  /\ pc' = "return"
  /\ UNCHANGED <<xvars, world, op, input, result>>

\* x-posts: if (rssFailed || allPosts.length === 0) allPosts =
\* filterByQuery(mockPosts.sort(random)); then, for every case, dedupe and
\* slice.  The filter keeps the order and the mock titles are pairwise
\* different, so the first count posts of the result are the first count
\* elements of a shuffle of the filtered list.
personalize_feed_return ==
  /\ op = "personalize_feed" /\ pc = "return"
  /\ \E fresh \in ShuffledPrefixes(filterByQuery(mockPosts, input.userQuery), CountOr(DefaultCount)) :
       /\ allPosts' = IF input.baseInterest = "x-posts" /\ (rssFailed \/ Len(allPosts) = 0) THEN fresh ELSE allPosts
       /\ result' = Returned("posts", slice(Dedupe(allPosts'), 0, CountOr(DefaultCount)), 1)
  /\ pc' = "done"
  /\ UNCHANGED <<xvars, world, op, input, idx, rssFailed, fetchLog>>

(***************************************************************************)
(* tools/fetchStories.ts, tools/fetchMemes.ts, fetch_viral_posts           *)
(***************************************************************************)
FictionOnTheWeb == <<"F","i","c","t","i","o","n"," ","o","n"," ","t","h","e"," ","W","e","b">>

\* the arguments reach the modular handlers as sent: count may be missing
CountsOrMissing == Counts \cup {Undef}

Genres == {Undef, Str(<<>>), Str(<<"C","A","T">>)}

\* items.filter(item => title.includes(genreLower) || desc.includes(genreLower))
\* over the raw items
genreFilter(items, genreLower) ==
  FilterSeq(items, {i \in 1..Len(items) :
     LET title == toLowerCase(Or(Prop(items[i], "title"), Str(<<>>)).s)
         desc == toLowerCase(Or(Or(Prop(items[i], "contentSnippet"), Prop(items[i], "description")), Str(<<>>)).s)
     IN includes(title, genreLower) \/ includes(desc, genreLower)})

tools_fetchStories_invoke ==
  /\ pc = "idle"
  /\ \E c \in CountsOrMissing, g \in Genres, w \in FeedWorlds(1) :
       Start("tools_fetchStories", [count |-> c, genre |-> g], w, "loop")

\* the whole try block: one fetch, slice(0, count * 2), the genre filter,
\* slice(0, count).map, one text block per story; a rejected fetch is caught
\* and answered with an error result
tools_fetchStories_fetch ==
  /\ op = "tools_fetchStories" /\ pc = "loop"
  /\ fetchLog' = Append(fetchLog, [kind |-> "feed", source |-> idx])
  /\ LET count == CountOr(40)
         genreLower == toLowerCase(IF input.genre.t = "undefined" THEN <<>> ELSE input.genre.s)
         items == slice(world.feeds[idx].items, 0, count * 2)
         kept == IF genreLower # <<>> THEN genreFilter(items, genreLower) ELSE items
         stories == MapItems(kept, count, UntitledStory, Str(FictionOnTheWeb))
     IN IF world.feeds[idx].ok
        THEN /\ allPosts' = stories
             /\ result' = Returned("stories", stories, Len(stories))
        ELSE /\ allPosts' = allPosts
             /\ result' = ErrorResult
  /\ idx' = idx + 1
  /\ pc' = "done"
  /\ UNCHANGED <<xvars, world, op, input, rssFailed>>

tools_fetchMemes_invoke ==
  /\ pc = "idle"
  /\ \E c \in CountsOrMissing, w \in FeedWorlds(2) : Start("tools_fetchMemes", [count |-> c], w, "loop")

tools_fetchMemes_loop ==
  /\ op = "tools_fetchMemes" /\ pc = "loop"
  /\ TryFetchSource(Len(memeFeeds), CountOr(DefaultCount), UntitledMeme, SourceLabel(memeFeeds[idx]))

\* structuredContent holds uniqueMemes.slice(0, count); content has one text
\* block per element of uniqueMemes
tools_fetchMemes_return ==
  /\ op = "tools_fetchMemes" /\ pc = "return"
  /\ result' = Returned("memes", slice(Dedupe(allPosts), 0, CountOr(DefaultCount)), Len(Dedupe(allPosts)))
  /\ pc' = "done"
  /\ UNCHANGED <<xvars, world, op, input, idx, allPosts, rssFailed, fetchLog>>

viralFeeds == IF input.type = "buzz" THEN viralFeedsBuzz ELSE viralFeedsTech

\* the earlier build of the server; its extractor reads the inline image from
\* contentSnippet || description only, which is the same text for every item
\* without a content field
fetch_viral_posts_invoke ==
  /\ pc = "idle"
  /\ \E c \in Counts, ty \in {"buzz", "tech"}, w \in FeedWorlds(1) :
       Start("fetch_viral_posts", [count |-> c, type |-> ty], w, "loop")

fetch_viral_posts_loop ==
  /\ op = "fetch_viral_posts" /\ pc = "loop"
  /\ TryFetchSource(Len(viralFeeds), CountOr(5), ViralPost, SourceLabel(viralFeeds[idx]))

fetch_viral_posts_return == op = "fetch_viral_posts" /\ ReturnUnique("posts", CountOr(5))

(***************************************************************************)
(* server.ts: fetch_ddg_search; tools/fetchDDG.ts                          *)
(***************************************************************************)
RECURSIVE encodeURIComponent(_)
\* encodeURIComponent over the characters the queries use: the reserved
\* characters are percent-encoded, every other character is kept
encodeURIComponent(s) ==
  IF s = <<>> THEN <<>>
  ELSE (CASE Head(s) = " " -> <<"%","2","0">>
          [] Head(s) = "/" -> <<"%","2","F">>
          [] Head(s) = ":" -> <<"%","3","A">>
          [] Head(s) = "?" -> <<"%","3","F">>
          [] Head(s) = "&" -> <<"%","2","6">>
          [] Head(s) = "=" -> <<"%","3","D">>
          [] Head(s) = "+" -> <<"%","2","B">>
          [] Head(s) = "#" -> <<"%","2","3">>
          [] OTHER -> <<Head(s)>>) \o encodeURIComponent(Tail(s))

\* `${v}` inside a template literal
TemplateText(v) ==
  CASE v.t = "string" -> v.s
    [] v.t = "undefined" -> <<"u","n","d","e","f","i","n","e","d">>
    [] OTHER -> <<"n","u","l","l">>

DuckDuckGo == <<"D","u","c","k","D","u","c","k","G","o">>
Bing == <<"B","i","n","g">>
InstantAnswer == <<"I","n","s","t","a","n","t"," ","A","n","s","w","e","r">>
RelatedTopic == <<"R","e","l","a","t","e","d"," ","T","o","p","i","c">>
LearnMore == <<"L","e","a","r","n"," ","m","o","r","e",":"," ">>
ViaPlaceholder == <<"h","t","t","p","s",":","/","/","v","i","a",".","p","l","a","c","e","h","o","l","d","e","r",".","c","o","m","/","3","2","0","x","1","8","0","/","4","A","9","0","E","2","/","F","F","F","F","F","F","?","t","e","x","t","=">>
PlaceholdCo == <<"h","t","t","p","s",":","/","/","p","l","a","c","e","h","o","l","d",".","c","o","/","3","2","0","x","1","8","0","/","4","A","9","0","E","2","/","F","F","F","F","F","F","?","t","e","x","t","=">>

Icon(url) == [t |-> "object", URL |-> url]
Topic(text, firstUrl, icon) == [t |-> "object", Text |-> text, FirstURL |-> firstUrl, Icon |-> icon]

\* related topics as the API serves them: an empty icon URL, a relative icon
\* URL, a topic without text, link and icon, an absolute icon URL
TopicPool ==
  {Topic(Str(<<"T","o","p","i","c"," ","A">>), Str(<<"h","t","t","p","s",":","/","/","d",".","e","x","a","m","p","l","e","/","a">>), Icon(Str(<<>>))),
   Topic(Str(<<"T","o","p","i","c"," ","B">>), Undef, Icon(Str(<<"/","i","/","b",".","p","n","g">>))),
   Topic(Undef, Undef, Undef),
   Topic(Str(<<"T","o","p","i","c"," ","D">>), Str(<<"h","t","t","p","s",":","/","/","d",".","e","x","a","m","p","l","e","/","d">>), Icon(Str(<<"h","t","t","p","s",":","/","/","d",".","e","x","a","m","p","l","e","/","i","/","d",".","p","n","g">>)))}

TopicLists ==
  UNION {{s \in [1..n -> TopicPool] : \A i, j \in 1..n : s[i] = s[j] => i = j} : n \in 0..MaxItems}

\* Abstract, Heading, AbstractURL
AnswerPool ==
  {<<Str(<<>>), Str(<<>>), Str(<<>>)>>,
   <<Str(<<"A","n"," ","a","n","s","w","e","r">>), Str(<<>>), Str(<<>>)>>,
   <<Str(<<"A","n"," ","a","n","s","w","e","r">>), Str(<<"A","I">>), Str(<<"h","t","t","p","s",":","/","/","d",".","e","x","a","m","p","l","e","/","a","i">>)>>}

Json(data) == [ok |-> TRUE, data |-> data]

SearchOutcomes ==
  {NoSearch}
  \cup {Json([t |-> "object", Abstract |-> a[1], Heading |-> a[2], AbstractURL |-> a[3], RelatedTopics |-> Undef]) :
          a \in AnswerPool}
  \cup {Json([t |-> "object", Abstract |-> a[1], Heading |-> a[2], AbstractURL |-> a[3], RelatedTopics |-> Arr(s)]) :
          a \in AnswerPool, s \in TopicLists}

ImageOutcomes ==
  {NoImage, Json([t |-> "object", RelatedTopics |-> Undef])}
  \cup {Json([t |-> "object", RelatedTopics |-> Arr(<<tp>>)]) : tp \in TopicPool}

Queries == {Str(<<"a","i"," ","n","e","w","s">>)}
QueriesOrMissing == Queries \cup {Undef, Str(<<>>)}

\* the instant answer, if any, followed by the first count - 1 related topics
SearchResults(data, count) ==
  LET answer ==
        IF Truthy(data.Abstract)
        THEN <<[title |-> Or(data.Heading, Str(InstantAnswer)), description |-> data.Abstract,
                link |-> Or(data.AbstractURL, Str(Hash)), pubDate |-> Str(<<>>), _source |-> Str(DuckDuckGo),
                thumbnail |-> Null]>>
        ELSE <<>>
      related == IF Truthy(data.RelatedTopics) /\ Len(data.RelatedTopics.a) > 0
                 THEN slice(data.RelatedTopics.a, 0, count - 1)
                 ELSE <<>>
      topics ==
        [i \in 1..Len(related) |->
           [title |-> Or(related[i].Text, Str(RelatedTopic)),
            description |-> IF Truthy(related[i].FirstURL)
                            THEN Str(LearnMore \o TemplateText(related[i].Text))
                            ELSE related[i].Text,
            link |-> Or(related[i].FirstURL, Str(Hash)), pubDate |-> Str(<<>>), _source |-> Str(DuckDuckGo),
            thumbnail |-> IF Truthy(related[i].Icon) THEN related[i].Icon.URL ELSE Null]]
  IN answer \o topics

\* imgData.RelatedTopics && imgData.RelatedTopics[0] && imgData.RelatedTopics[0].Icon
\* ? imgData.RelatedTopics[0].Icon.URL : placeholder + encodeURIComponent(query.slice(0, 20))
EnhancedThumbnail(imgData, placeholder, query) ==
  IF /\ Truthy(imgData.RelatedTopics)
     /\ Len(imgData.RelatedTopics.a) > 0
     /\ Truthy(imgData.RelatedTopics.a[1].Icon)
  THEN imgData.RelatedTopics.a[1].Icon.URL
  ELSE Str(placeholder \o encodeURIComponent(slice(query, 0, 20)))

fetch_ddg_search_invoke ==
  /\ pc = "idle"
  /\ \E c \in Counts, q \in Queries, s \in SearchOutcomes, i \in ImageOutcomes :
       Start("fetch_ddg_search", [count |-> c, query |-> q], [feeds |-> <<>>, search |-> s, img |-> i], "search")

\* the search request and the parsing of its answer; the image lookup follows
\* when the top result has no thumbnail, otherwise the handler returns; a
\* failure is caught and empties the results
fetch_ddg_search_search ==
  /\ op = "fetch_ddg_search" /\ pc = "search"
  /\ fetchLog' = Append(fetchLog, [kind |-> "search", source |-> 0])
  /\ LET count == CountOr(DefaultCount)
         results == IF world.search.ok THEN SearchResults(world.search.data, count) ELSE <<>>
     IN /\ allPosts' = results
        /\ IF Len(results) > 0 /\ ~Truthy(results[1].thumbnail)
           THEN pc' = "image" /\ result' = result
           ELSE pc' = "done" /\ result' = Returned("results", slice(results, 0, count), 1)
  /\ UNCHANGED <<xvars, world, op, input, idx, rssFailed>>

\* the image lookup, inside the same try block as the search
fetch_ddg_search_image ==
  /\ op = "fetch_ddg_search" /\ pc = "image"
  /\ fetchLog' = Append(fetchLog, [kind |-> "image", source |-> 0])
  /\ allPosts' = IF world.img.ok
                 THEN [allPosts EXCEPT ![1].thumbnail = EnhancedThumbnail(world.img.data, ViaPlaceholder, input.query.s)]
                 ELSE <<>>
  /\ result' = Returned("results", slice(allPosts', 0, CountOr(DefaultCount)), 1)
  /\ pc' = "done"
  /\ UNCHANGED <<xvars, world, op, input, idx, rssFailed>>

tools_fetchDDG_invoke ==
  /\ pc = "idle"
  /\ \E c \in CountsOrMissing, q \in QueriesOrMissing, f \in FeedOutcomes, i \in ImageOutcomes :
       Start("tools_fetchDDG", [count |-> c, query |-> q], [feeds |-> <<f>>, search |-> NoSearch, img |-> i], "query")

\* const count = args.count || 10
fetchDDGCount == Or(input.count, Num(DefaultCount)).n

\* mutant of tools_fetchDDG_query: only a missing query is rejected, an empty
\* one goes on to the search
tools_fetchDDG_query_missing_only ==
  /\ op = "tools_fetchDDG" /\ pc = "query"
  /\ IF input.query.t = "undefined"
     THEN pc' = "done" /\ result' = Thrown
     ELSE pc' = "search" /\ result' = result
  /\ UNCHANGED <<xvars, world, op, input, idx, allPosts, rssFailed, fetchLog>>

\* if (!query) throw new Error('Query required')
tools_fetchDDG_query ==
  /\ op = "tools_fetchDDG" /\ pc = "query"
  /\ IF ~Truthy(input.query)
     THEN pc' = "done" /\ result' = Thrown
     ELSE pc' = "search" /\ result' = result
  /\ UNCHANGED <<xvars, world, op, input, idx, allPosts, rssFailed, fetchLog>>

\* the Bing feed: every result starts with thumbnail null; the image lookup
\* follows when there is a result
tools_fetchDDG_search ==
  /\ op = "tools_fetchDDG" /\ pc = "search"
  /\ fetchLog' = Append(fetchLog, [kind |-> "feed", source |-> idx])
  /\ LET items == slice(world.feeds[idx].items, 0, fetchDDGCount)
         results == [i \in 1..Len(items) |-> [Record(items[i], SearchResult, Str(Bing)) EXCEPT !.thumbnail = Null]]
     IN /\ allPosts' = results
        /\ IF Len(results) > 0 /\ ~Truthy(results[1].thumbnail)
           THEN pc' = "image" /\ result' = result
           ELSE pc' = "done" /\ result' = Returned("results", slice(results, 0, fetchDDGCount), Len(slice(results, 0, fetchDDGCount)))
  /\ idx' = idx + 1
  /\ UNCHANGED <<xvars, world, op, input, rssFailed>>

\* the image lookup in its own try block: on failure the placeholder is used
tools_fetchDDG_image ==
  /\ op = "tools_fetchDDG" /\ pc = "image"
  /\ fetchLog' = Append(fetchLog, [kind |-> "image", source |-> 0])
  /\ allPosts' = [allPosts EXCEPT ![1].thumbnail =
                    IF world.img.ok
                    THEN EnhancedThumbnail(world.img.data, PlaceholdCo, input.query.s)
                    ELSE Str(PlaceholdCo \o encodeURIComponent(slice(input.query.s, 0, 20)))]
  /\ result' = Returned("results", slice(allPosts', 0, fetchDDGCount), Len(slice(allPosts', 0, fetchDDGCount)))
  /\ pc' = "done"
  /\ UNCHANGED <<xvars, world, op, input, idx, rssFailed>>

(***************************************************************************)
(* tools/generatePostsFromRss.ts                                           *)
(***************************************************************************)
\* one reading of the clock: Date.now() and new Date().toISOString()
Clock == {[ms |-> 1000, iso |-> <<"2","0","2","5","-","1","0","-","1","1","T","1","0",":","0","0",":","0","1",".","0","0","0","Z">>], [ms |-> 1007, iso |-> <<"2","0","2","5","-","1","0","-","1","1","T","1","0",":","0","0",":","0","1",".","0","0","7","Z">>]}

\* each element stands for one emoji character
Emojis == <<"fire", "joy", "exploding-head", "eyes", "collision">>

\* s.substring(0, n)
substring(s, n) == SubSeq(s, 1, Min(n, Len(s)))

\* generatePostText reads item.title.substring (tweet) or
\* item.description.substring (reddit): a TypeError when the field is missing
PostTextThrows(item, style) ==
  IF style = "tweet" THEN Prop(item, "title").t # "string" ELSE Prop(item, "description").t # "string"

\* seed = Date.now() + Math.random(), rand = Math.floor(seed % 10): the last
\* digit of the clock
generatePostText(item, style, now) ==
  LET emojis == Emojis[((now.ms % 10) % 5) + 1]
      cta == IF style = "reddit" THEN <<"D","i","s","c","u","s","s"," ","b","e","l","o","w","!">> ELSE <<"W","h","a","t"," ","d","o"," ","y","o","u"," ","t","h","i","n","k","?"," ","R","e","p","l","y","!">>
  IN IF style = "tweet"
     THEN <<emojis>> \o <<" ">> \o substring(item.title.s, 100) \o <<".",".","."," ">> \o cta \o <<" ","#","M","e","m","e","s"," ","#","D","a","i","l","y","L","a","u","g","h"," ">>
          \o TemplateText(Prop(item, "link"))
     ELSE <<"*","*">> \o TemplateText(Prop(item, "title")) \o <<"*","*">> \o <<"\n", "\n">>
          \o substring(item.description.s, 500) \o <<".",".",".">> \o <<"\n", "\n">> \o <<"S","o","u","r","c","e",":"," ">>
          \o TemplateText(Prop(item, "link")) \o <<"\n", "\n">> \o cta

CheezburgerRss == <<"h","t","t","p","s",":","/","/","m","e","m","e","b","a","s","e",".","c","h","e","e","z","b","u","r","g","e","r",".","c","o","m","/","r","s","s">>
\* the default, a host with a leading www. and a host with www. as an inner label
RssUrls == {Undef, Str(<<"h","t","t","p","s",":","/","/","w","w","w",".","r","e","d","d","i","t",".","c","o","m","/","r","/","m","e","m","e","s","/",".","r","s","s">>), Str(<<"h","t","t","p","s",":","/","/","f","e","e","d","s",".","w","w","w",".","e","x","a","m","p","l","e",".","c","o","m","/","r","s","s">>)}
Styles == {Undef, Str(<<"t","w","e","e","t">>), Str(<<"r","e","d","d","i","t">>)}

PostRecord(item, style, now, source) ==
  [postText |-> Str(generatePostText(item, style, now)),
   title |-> Or(Prop(item, "title"), Str(GeneratedPost)),
   link |-> Or(Prop(item, "link"), Str(Hash)),
   pubDate |-> Or(Prop(item, "pubDate"), Str(now.iso)),
   _source |-> source,
   thumbnail |-> extractThumbnail(item)]

tools_generatePostsFromRss_invoke ==
  /\ pc = "idle"
  /\ \E c \in CountsOrMissing, u \in RssUrls, st \in Styles, w \in FeedWorlds(1) :
       Start("tools_generatePostsFromRss", [count |-> c, rssUrl |-> u, style |-> st], w, "loop")

\* the whole try block: one fetch, slice(0, count * 2), slice(0, count).map,
\* one text block per post; a rejected fetch and an exception of the mapping
\* are caught and answered with an error result
tools_generatePostsFromRss_fetch ==
  /\ op = "tools_generatePostsFromRss" /\ pc = "loop"
  /\ fetchLog' = Append(fetchLog, [kind |-> "feed", source |-> idx])
  /\ LET count == CountOr(5)
         rssUrl == IF input.rssUrl.t = "undefined" THEN CheezburgerRss ELSE input.rssUrl.s
         style == IF input.style.t = "undefined" THEN "tweet" ELSE IF input.style.s = <<"r","e","d","d","i","t">> THEN "reddit" ELSE "tweet"
         items == slice(slice(world.feeds[idx].items, 0, count * 2), 0, count)
     IN IF /\ world.feeds[idx].ok
           /\ \A i \in 1..Len(items) : UrlParses(rssUrl) /\ ~PostTextThrows(items[i], style)
        THEN \E now \in [1..Len(items) -> Clock] :
               /\ allPosts' = [i \in 1..Len(items) |->
                                 PostRecord(items[i], style, now[i], Str(replace(hostname(rssUrl), Www, <<>>)))]
               /\ result' = Returned("posts", allPosts', Len(items))
        ELSE /\ allPosts' = allPosts
             /\ result' = ErrorResult
  /\ idx' = idx + 1
  /\ pc' = "done"
  /\ UNCHANGED <<xvars, world, op, input, rssFailed>>

(***************************************************************************)
(* server.ts: generate_stories                                             *)
(***************************************************************************)
UpperChar(c) ==
  IF \E i \in 1..Len(LowerChars) : LowerChars[i] = c
  THEN UpperChars[CHOOSE i \in 1..Len(LowerChars) : LowerChars[i] = c]
  ELSE c

HexDigits == <<"0","1","2","3","4","5","6","7","8","9","a","b","c","d","e","f">>

RECURSIVE toStringRadix(_, _)
\* n.toString(radix) for n >= 0
toStringRadix(n, radix) ==
  IF n < radix THEN <<HexDigits[n + 1]>>
  ELSE toStringRadix(n \div radix, radix) \o <<HexDigits[(n % radix) + 1]>>

RECURSIVE padStart(_, _, _)
padStart(s, n, c) == IF Len(s) >= n THEN s ELSE padStart(<<c>> \o s, n, c)

\* s.split(' ')[0]
FirstWord(s) ==
  IF \E i \in 1..Len(s) : s[i] = " "
  THEN SubSeq(s, 1, (CHOOSE i \in 1..Len(s) : s[i] = " " /\ \A j \in 1..(i - 1) : s[j] # " ") - 1)
  ELSE s

\* the position of the n-th space of s
NthSpace(s, n) == CHOOSE i \in 1..Len(s) : s[i] = " " /\ Cardinality({j \in 1..i : s[j] = " "}) = n

\* words = s.split(' '); words.slice(0, n).join(' ') + (words.length > n ? '...' : '')
TruncateWords(s, n) ==
  IF Cardinality({i \in 1..Len(s) : s[i] = " "}) + 1 > n
  THEN SubSeq(s, 1, NthSpace(s, n) - 1) \o <<".",".",".">>
  ELSE s

\* the values Math.random() takes, in tenths
RandomTenths == {0, 7}

\* list[Math.floor(Math.random() * list.length)]
Pick(list, r) == list[((r * Len(list)) \div 10) + 1]

genresGoblin == <<<<"f","a","n","t","a","s","y">>, <<"c","y","b","e","r","p","u","n","k">>, <<"s","t","e","a","m","p","u","n","k">>, <<"n","o","i","r">>, <<"e","p","i","c">>>>
genresOther == <<<<"f","u","t","u","r","i","s","t","i","c">>, <<"d","y","s","t","o","p","i","a","n">>, <<"u","t","o","p","i","a","n">>, <<"n","o","i","r">>, <<"e","p","i","c">>>>
twists ==
  <<<<"a"," ","b","e","t","r","a","y","a","l"," ","b","y"," ","a","n"," ","o","l","d"," ","f","r","i","e","n","d">>, <<"a"," ","h","i","d","d","e","n"," ","a","r","t","i","f","a","c","t"," ","i","n"," ","t","h","e"," ","s","h","a","d","o","w","s">>, <<"a","n"," ","u","n","e","x","p","e","c","t","e","d"," ","a","l","l","y"," ","f","r","o","m"," ","t","h","e"," ","p","a","s","t">>,
    <<"a"," ","t","i","m","e"," ","l","o","o","p"," ","t","r","a","p","p","i","n","g"," ","t","h","e"," ","h","e","r","o">>, <<"a"," ","d","i","g","i","t","a","l"," ","g","h","o","s","t"," ","h","a","u","n","t","i","n","g"," ","t","h","e"," ","c","o","d","e">>>>
endings ==
  <<<<"v","i","c","t","o","r","y"," ","a","t"," ","a"," ","h","e","a","v","y"," ","c","o","s","t">>, <<"a"," ","b","i","t","t","e","r","s","w","e","e","t"," ","f","a","r","e","w","e","l","l"," ","u","n","d","e","r"," ","t","h","e"," ","s","t","a","r","s">>, <<"a","n"," ","e","t","e","r","n","a","l"," ","m","y","s","t","e","r","y"," ","u","n","s","o","l","v","e","d">>,
    <<"a"," ","r","e","b","i","r","t","h"," ","f","r","o","m"," ","t","h","e"," ","a","s","h","e","s">>, <<"a","n"," ","e","n","d","l","e","s","s"," ","c","h","a","s","e"," ","i","n","t","o"," ","t","h","e"," ","u","n","k","n","o","w","n">>>>

Prompts == {<<"g","o","b","l","i","n"," ","r","o","m","a","n","c","e"," ","i","n"," ","s","p","a","c","e">>, <<"A"," ","w","h","i","m","s","i","c","a","l"," ","a","d","v","e","n","t","u","r","e"," ","i","n"," ","a"," ","f","u","t","u","r","i","s","t","i","c"," ","c","i","t","y">>}

\* the story of one iteration; r holds its four random draws
StoryText(prompt, length, r) ==
  TruncateWords(
    <<"I","n"," ","t","h","e"," ">> \o Pick(IF includes(toLowerCase(prompt), <<"g","o","b","l","i","n">>) THEN genresGoblin ELSE genresOther, r[1])
    \o <<" ","s","p","r","a","w","l"," ","o","f"," ">> \o toLowerCase(prompt) \o <<","," ","t","h","e"," ","w","a","n","d","e","r","e","r"," ","u","n","c","o","v","e","r","e","d"," ">> \o Pick(twists, r[2])
    \o <<","," ","s","p","a","r","k","i","n","g"," ","a"," ","c","h","a","i","n"," ","o","f"," ","e","v","e","n","t","s"," ","t","h","a","t"," ","l","e","d"," ","t","o"," ">> \o Pick(endings, r[3]) \o <<"."," ">>
    \o (IF length = "short"
        THEN <<"T","h","e"," ","n","e","o","n"," ","l","i","g","h","t","s"," ","f","l","i","c","k","e","r","e","d"," ","a","s"," ","s","e","c","r","e","t","s"," ","u","n","r","a","v","e","l","e","d",","," ","l","e","a","v","i","n","g"," ","o","n","l","y"," ","e","c","h","o","e","s"," ","o","f"," ","w","h","a","t"," ","w","a","s"," ","l","o","s","t"," ","i","n"," ","t","h","e"," ","g","r","i","d",".">>
        ELSE <<"A","l","l","i","e","s"," ","r","o","s","e"," ","a","n","d"," ","f","e","l","l"," ","a","m","i","d"," ","m","o","r","a","l"," ","c","r","o","s","s","r","o","a","d","s",","," ","t","e","c","h","n","o","l","o","g","y"," ","b","l","u","r","r","i","n","g"," ","w","i","t","h"," ","f","a","t","e",","," ","c","u","l","m","i","n","a","t","i","n","g"," ","i","n"," ","a"," ","d","a","w","n"," ","t","h","a","t"," ","r","e","s","h","a","p","e","d"," ","t","h","e"," ","h","o","r","i","z","o","n","."," ","A","s"," ","t","h","e"," ","s","p","i","r","e","s"," ","g","l","o","w","e","d"," ","a","n","e","w",","," ","t","h","e"," ","c","y","c","l","e"," ","r","e","n","e","w","e","d"," ","w","i","t","h"," ","w","h","i","s","p","e","r","s"," ","o","f"," ","u","n","t","o","l","d"," ","f","u","t","u","r","e","s",".">>),
    IF length = "short" THEN 100 ELSE 200)

\* Math.floor(Math.random() * 0xFFFFFF << 0).toString(16).padStart(6, '0')
Colour(r) == padStart(toStringRadix((r * 16777215) \div 10, 16), 6, "0")

\* the record pushed by iteration i (counted from 0)
Story(prompt, length, i, r, now) ==
  [title |-> Str(<<UpperChar(FirstWord(prompt)[1])>> \o Tail(FirstWord(prompt)) \o <<" ","S","h","a","d","o","w","s",":"," ","C","h","a","p","t","e","r"," ">>
                 \o toStringRadix(i + 1, 10)),
   description |-> Str(StoryText(prompt, length, r)),
   link |-> Str(<<"G","e","n","e","r","a","t","e","d"," ","v","i","a"," ","M","C","P"," ","A","I">>),
   pubDate |-> Str(now.iso),
   _source |-> Str(<<"A","I"," ","G","e","n","e","r","a","t","e","d">>),
   thumbnail |-> Str(<<"h","t","t","p","s",":","/","/","v","i","a",".","p","l","a","c","e","h","o","l","d","e","r",".","c","o","m","/","3","2","0","x","1","8","0","/">> \o Colour(r[4]) \o <<"/","F","F","F","F","F","F","?","t","e","x","t","=","A","I","+","S","t","o","r","y","+">>
                     \o toStringRadix(i + 1, 10))]

generate_stories_invoke ==
  /\ pc = "idle"
  /\ \E c \in Counts, p \in Prompts, l \in {"short", "medium"} :
       Start("generate_stories", [count |-> c, prompt |-> p, length |-> l], NoWorld, "loop")

\* the handler awaits nothing: the loop and the return are one step; every
\* iteration draws four random numbers, and the loop is over within one
\* reading of the clock
generate_stories_run ==
  /\ op = "generate_stories" /\ pc = "loop"
  /\ \E r \in [1..CountOr(5) -> [1..4 -> RandomTenths]], now \in Clock :
       /\ allPosts' = [i \in 1..CountOr(5) |-> Story(input.prompt, input.length, i - 1, r[i], now)]
       /\ result' = Returned("stories", allPosts', 1)
  /\ pc' = "done"
  /\ UNCHANGED <<xvars, world, op, input, idx, rssFailed, fetchLog>>

\* the response has been sent; the handler's locals are gone
Release ==
  /\ pc = "done"
  /\ world' = NoWorld
  /\ op' = "idle"
  /\ input' = NoInput
  /\ pc' = "idle"
  /\ idx' = 0
  /\ allPosts' = <<>>
  /\ rssFailed' = FALSE
  /\ fetchLog' = <<>>
  /\ result' = NoResult
  /\ previous' = NoResult
  /\ UNCHANGED <<xitem, xarg, xret, xcalls, closed, other>>

\* the position at which the handler of a tool starts
FirstStep(o) ==
  CASE o = "fetch_ddg_search" -> "search"
    [] o = "tools_fetchDDG" -> "query"
    [] OTHER -> "loop"

\* the client makes the same call of a feed tool again, with the same input,
\* while the feeds serve what they served before: a fresh run of the handler
Reinvoke ==
  /\ pc = "done" /\ previous = NoResult
  /\ op \in {"fetch_memes", "fetch_stories", "fetch_ai_science", "fetch_viral_posts", "fetch_x_posts",
             "personalize_feed", "tools_fetchStories", "tools_fetchMemes", "tools_generatePostsFromRss"}
  /\ previous' = result
  /\ pc' = FirstStep(op)
  /\ idx' = 1
  /\ allPosts' = <<>>
  /\ rssFailed' = TRUE
  /\ fetchLog' = <<>>
  /\ result' = NoResult
  /\ UNCHANGED <<xitem, xarg, xret, xcalls, world, op, input, closed, other>>

Init ==
  /\ xitem = Undef /\ xarg = Undef /\ xret = NotCalled /\ xcalls = 0
  /\ HandlersIdle

Next ==
  \/ fetch_memes_invoke \/ fetch_memes_loop \/ fetch_memes_return
  \/ fetch_stories_invoke \/ fetch_stories_loop \/ fetch_stories_return
  \/ fetch_ai_science_invoke \/ fetch_ai_science_loop \/ fetch_ai_science_return
  \/ fetch_x_posts_invoke \/ fetch_x_posts_loop \/ fetch_x_posts_return
  \/ personalize_feed_invoke \/ personalize_feed_loop \/ personalize_feed_x_loop \/ personalize_feed_return
  \/ tools_fetchStories_invoke \/ tools_fetchStories_fetch
  \/ tools_fetchMemes_invoke \/ tools_fetchMemes_loop \/ tools_fetchMemes_return
  \/ fetch_viral_posts_invoke \/ fetch_viral_posts_loop \/ fetch_viral_posts_return
  \/ fetch_ddg_search_invoke \/ fetch_ddg_search_search \/ fetch_ddg_search_image
  \/ tools_fetchDDG_invoke \/ tools_fetchDDG_query \/ tools_fetchDDG_search \/ tools_fetchDDG_image
  \/ tools_generatePostsFromRss_invoke \/ tools_generatePostsFromRss_fetch
  \/ generate_stories_invoke \/ generate_stories_run
  \/ Reinvoke
  \/ Release

Spec == Init /\ [][Next]_vars

(***************************************************************************)
(* Two invocations in flight.  The handlers are async functions on one     *)
(* event loop: while one awaits parser.parseURL the other runs.  The       *)
(* variables world .. closed hold the invocation that runs; `other` holds  *)
(* the locals of the one that is suspended at its await.  The calls are    *)
(* drawn from a small set of inputs and feed answers.                      *)
(***************************************************************************)
PairOutcomes1 == {Failed, Fetched(<<ItemCat>>)}
PairOutcomes2 == {Fetched(<<ItemCatUpper>>), Fetched(<<ItemCatUpper, ItemBare>>)}

\* feed answers for an operation with two sources and with one
PairWorlds2 == {[feeds |-> <<f, g>>, search |-> NoSearch, img |-> NoImage] : f \in PairOutcomes1, g \in PairOutcomes2}
PairWorlds1 == {[feeds |-> <<f>>, search |-> NoSearch, img |-> NoImage] : f \in PairOutcomes1}

PairCalls ==
  {[op |-> "fetch_memes", input |-> [count |-> Num(2)], world |-> w] : w \in PairWorlds2}
  \cup {[op |-> "fetch_x_posts", input |-> [count |-> Num(1)], world |-> w] : w \in PairWorlds1}
  \cup {[op |-> "personalize_feed", input |-> [count |-> Num(2), baseInterest |-> "memes", userQuery |-> <<"c","a","t">>],
         world |-> w] : w \in PairWorlds2}
  \cup {[op |-> "personalize_feed", input |-> [count |-> Num(1), baseInterest |-> "x-posts", userQuery |-> <<"c","a","t">>],
         world |-> w] : w \in PairWorlds1}

\* the first of the two requests arrives
PairInvoke ==
  /\ pc = "idle" /\ other = NoOther
  /\ \E c \in PairCalls : Start(c.op, c.input, c.world, "loop")

\* the same call is made again once it has been answered on its own
PairReinvoke == other = NoOther /\ Reinvoke

\* a second request arrives while the handler of the repeated call awaits a
\* fetch: its handler runs up to its first await
StartOther ==
  /\ previous # NoResult /\ other = NoOther /\ pc = "loop"
  /\ \E c \in PairCalls :
       other' = [world |-> c.world, op |-> c.op, input |-> c.input, pc |-> "loop", idx |-> 1, allPosts |-> <<>>,
                 rssFailed |-> TRUE, fetchLog |-> <<>>, result |-> NoResult, previous |-> NoResult,
                 closed |-> NotClosed]
  /\ UNCHANGED <<xitem, xarg, xret, xcalls, previous, closed, opvars>>

\* mutant of Switch: the accumulator is one array for both invocations
SwitchSharedAccumulator ==
  /\ other # NoOther /\ other.pc # "done"
  /\ pc \in {"loop", "done"}
  /\ world' = other.world /\ op' = other.op /\ input' = other.input /\ pc' = other.pc /\ idx' = other.idx
  /\ allPosts' = allPosts /\ rssFailed' = other.rssFailed /\ fetchLog' = other.fetchLog
  /\ result' = other.result /\ previous' = other.previous /\ closed' = other.closed
  /\ other' = [world |-> world, op |-> op, input |-> input, pc |-> pc, idx |-> idx, allPosts |-> allPosts,
               rssFailed |-> rssFailed, fetchLog |-> fetchLog, result |-> result, previous |-> previous,
               closed |-> closed]
  /\ UNCHANGED <<xitem, xarg, xret, xcalls>>

\* the running handler awaits a fetch (or has returned) and the event loop
\* resumes the other one: each handler finds its own locals
Switch ==
  /\ other # NoOther /\ other.pc # "done"
  /\ pc \in {"loop", "done"}
  /\ world' = other.world /\ op' = other.op /\ input' = other.input /\ pc' = other.pc /\ idx' = other.idx
  /\ allPosts' = other.allPosts /\ rssFailed' = other.rssFailed /\ fetchLog' = other.fetchLog
  /\ result' = other.result /\ previous' = other.previous /\ closed' = other.closed
  /\ other' = [world |-> world, op |-> op, input |-> input, pc |-> pc, idx |-> idx, allPosts |-> allPosts,
               rssFailed |-> rssFailed, fetchLog |-> fetchLog, result |-> result, previous |-> previous,
               closed |-> closed]
  /\ UNCHANGED <<xitem, xarg, xret, xcalls>>

\* res.on('close', () => transport.close()): the client of the running
\* invocation goes away while its handler awaits a fetch.  Nothing of the
\* handler is touched: it receives no signal and its loop tests none.
Close ==
  /\ other # NoOther
  /\ pc = "loop" /\ closed = NotClosed
  /\ closed' = [closed |-> TRUE, at |-> Len(fetchLog)]
  /\ UNCHANGED <<xitem, xarg, xret, xcalls, previous, other, opvars>>

NextPair ==
  \/ PairInvoke
  \/ fetch_memes_loop \/ fetch_memes_return
  \/ fetch_x_posts_loop \/ fetch_x_posts_return
  \/ personalize_feed_loop \/ personalize_feed_x_loop \/ personalize_feed_return
  \/ PairReinvoke
  \/ StartOther
  \/ Switch
  \/ Close

SpecPair == Init /\ [][NextPair]_vars

(***************************************************************************)
(* Properties of the operations                                            *)
(***************************************************************************)
\* the handler has returned a structured payload
Answered == pc = "done" /\ result.status = "returned" /\ result.structured

\* the operations that return records derived from feeds
FeedOperations ==
  {"fetch_memes", "fetch_stories", "fetch_ai_science", "fetch_viral_posts", "fetch_x_posts", "personalize_feed",
   "tools_fetchStories", "tools_fetchMemes", "tools_generatePostsFromRss"}

LowerTitle(r) == toLowerCase(r.title.s)

\* C1: in every operation that returns feed-derived records, no two returned
\* records have titles that are equal after lowercasing, and every returned
\* record is the earliest record of its title in the concatenated per-source
\* list, unchanged.
C1_DedupEarliestWins ==
  (Answered /\ op \in FeedOperations \ {"tools_generatePostsFromRss"}) =>
    /\ \A i, j \in 1..Len(result.records) :
         i # j => LowerTitle(result.records[i]) # LowerTitle(result.records[j])
    /\ \A i \in 1..Len(result.records) :
         /\ \E k \in 1..Len(allPosts) : LowerTitle(allPosts[k]) = LowerTitle(result.records[i])
         /\ result.records[i] = allPosts[findIndexByTitle(allPosts, result.records[i])]

\* C2: for every operation and every integer count >= 0, a returned
\* structured payload holds at most count records.
C2_CountBound ==
  (Answered /\ input.count.t = "number" /\ input.count.n >= 0) => Len(result.records) <= input.count.n

\* the URL list and the title placeholder of the operations with two sources
TwoSourceFeeds ==
  CASE op \in {"fetch_memes", "tools_fetchMemes"} -> memeFeeds
    [] op = "fetch_ai_science" -> feeds
    [] OTHER -> personalizeFeeds

TwoSourcePlaceholder ==
  CASE op \in {"fetch_memes", "tools_fetchMemes"} -> UntitledMeme
    [] op = "fetch_ai_science" -> BreakthroughPost
    [] OTHER -> personalizePlaceholder

TwoSources ==
  \/ op \in {"fetch_memes", "fetch_ai_science"}
  \/ op = "personalize_feed" /\ input.baseInterest \in {"memes", "ai-science"}

\* the normalized records of source i, none if its fetch failed
Contribution(i) ==
  IF world.feeds[i].ok
  THEN MapItems(world.feeds[i].items, CountOr(DefaultCount), TwoSourcePlaceholder, SourceLabel(TwoSourceFeeds[i]))
  ELSE <<>>

\* the records of the successful sources: normalized, filtered, deduplicated, truncated
Surviving ==
  LET all == Contribution(1) \o Contribution(2)
  IN slice(Dedupe(IF op = "personalize_feed" THEN filterByQuery(all, input.userQuery) ELSE all),
           0, CountOr(DefaultCount))

\* C3: in every operation with more than one source, when one source fails
\* and another succeeds the handler returns normally and the result holds the
\* normalized, filtered, deduplicated records of the successful source.
C3_SourceIsolation ==
  (pc = "done" /\ TwoSources /\ world.feeds[1].ok # world.feeds[2].ok) =>
    /\ result.status = "returned" /\ ~result.isError /\ result.structured
    /\ result.records = Surviving

\* C4: when every source of a feed operation fails, the operation returns a
\* well-formed result with zero records: no error result, no missing
\* structured payload, no exception.
C4_TotalFailureEmpty ==
  (pc = "done" /\ op \in FeedOperations /\ \A i \in 1..Len(world.feeds) : ~world.feeds[i].ok) =>
    /\ result.status = "returned" /\ ~result.isError /\ result.structured
    /\ result.records = <<>>

\* C6: every record returned by every operation has a thumbnail that is null
\* or absent or an absolute http(s) URL longer than 10 characters.
C6_RecordThumbnailValidated ==
  Answered =>
    \A i \in 1..Len(result.records) :
      Nullish(result.records[i].thumbnail) \/ PassesGate(result.records[i].thumbnail)

(***************************************************************************)
(* Order of the returned records                                           *)
(***************************************************************************)
\* the source URLs, the title placeholder and the source label of the
\* invocation in progress
OpFeeds ==
  CASE op \in {"fetch_memes", "tools_fetchMemes"} -> memeFeeds
    [] op = "fetch_stories" -> storyFeeds
    [] op = "fetch_ai_science" -> feeds
    [] op = "fetch_viral_posts" -> viralFeeds
    [] op = "personalize_feed" -> personalizeFeeds
    [] OTHER -> <<<<>>>>

OpPlaceholder ==
  CASE op \in {"fetch_memes", "tools_fetchMemes"} -> UntitledMeme
    [] op \in {"fetch_stories", "tools_fetchStories"} -> UntitledStory
    [] op = "fetch_ai_science" -> BreakthroughPost
    [] op = "fetch_viral_posts" -> ViralPost
    [] op = "personalize_feed" -> personalizePlaceholder
    [] op = "tools_generatePostsFromRss" -> GeneratedPost
    [] OTHER -> UntitledXPost

XOperation == op = "fetch_x_posts" \/ (op = "personalize_feed" /\ input.baseInterest = "x-posts")

OpSource(i) ==
  CASE op = "fetch_x_posts" -> Str(XViaRssBridge)
    [] op = "personalize_feed" /\ input.baseInterest = "x-posts" -> Str(XViaProxy)
    [] op = "tools_fetchStories" -> Str(FictionOnTheWeb)
    [] op = "tools_generatePostsFromRss" ->
         SourceLabel(IF input.rssUrl.t = "undefined" THEN CheezburgerRss ELSE input.rssUrl.s)
    [] OTHER -> SourceLabel(OpFeeds[i])

PostStyle ==
  IF input.style.t = "undefined" THEN "tweet"
  ELSE IF input.style.s = <<"r","e","d","d","i","t">> THEN "reddit" ELSE "tweet"

\* r is the normalized record of the raw item of source i
IsRecordOf(r, item, i) ==
  IF op = "tools_generatePostsFromRss"
  THEN \E now \in Clock : r = PostRecord(item, PostStyle, now, OpSource(i))
  ELSE r = Record(item, OpPlaceholder, OpSource(i))

RECURSIVE SourceItems(_)
\* the raw items of sources 1..n in source-list order, each with its source
\* position; a source whose fetch failed has none
SourceItems(n) ==
  IF n = 0 THEN <<>>
  ELSE SourceItems(n - 1)
       \o (IF world.feeds[n].ok
           THEN [k \in 1..Len(world.feeds[n].items) |-> [source |-> n, item |-> world.feeds[n].items[k]]]
           ELSE <<>>)

RECURSIVE RecordsInOrder(_, _)
\* records is a subsequence of the normalized list of items
RecordsInOrder(records, items) ==
  IF records = <<>> THEN TRUE
  ELSE IF items = <<>> THEN FALSE
  ELSE IF IsRecordOf(Head(records), Head(items).item, Head(items).source)
       THEN RecordsInOrder(Tail(records), Tail(items))
       ELSE RecordsInOrder(records, Tail(items))

RECURSIVE IsSubsequence(_, _)
IsSubsequence(a, b) ==
  IF a = <<>> THEN TRUE
  ELSE IF b = <<>> THEN FALSE
  ELSE IF Head(a) = Head(b) THEN IsSubsequence(Tail(a), Tail(b)) ELSE IsSubsequence(a, Tail(b))

\* fetch_x_posts and the x-posts case replace a failed or empty feed by the
\* built-in posts, which then are the invocation's only source
BuiltInPostsServed == XOperation /\ (rssFailed \/ ~world.feeds[1].ok \/ Len(slice(world.feeds[1].items, 0, CountOr(DefaultCount))) = 0)

Keyword ==
  CASE op = "personalize_feed" -> trim(toLowerCase(input.userQuery))
    [] op = "tools_fetchStories" -> toLowerCase(IF input.genre.t = "undefined" THEN <<>> ELSE input.genre.s)
    [] OTHER -> <<>>

ContainsKeyword(r) ==
  includes(toLowerCase(r.title.s), Keyword) \/ includes(toLowerCase(r.description.s), Keyword)

RECURSIVE Candidates(_)
\* the normalized records of sources 1..n before the filter
Candidates(n) ==
  IF n = 0 THEN <<>>
  ELSE Candidates(n - 1)
       \o MapItems(slice(world.feeds[n].items, 0, IF op = "tools_fetchStories" THEN CountOr(40) * 2 ELSE CountOr(DefaultCount)),
                   Len(world.feeds[n].items), OpPlaceholder, OpSource(n))

MatchingCandidates ==
  LET c == Candidates(Len(world.feeds))
  IN FilterSeq(c, {i \in 1..Len(c) : ContainsKeyword(c[i])})

\* C12: when a non-empty keyword is supplied to personalize_feed (every
\* baseInterest) or as genre to the modular fetch_stories, every returned
\* record contains the keyword, case-insensitively, in its title or its
\* description, and the filter step keeps every matching candidate.
C12_KeywordFilter ==
  (Answered /\ op \in {"personalize_feed", "tools_fetchStories"} /\ Keyword # <<>>) =>
    /\ \A i \in 1..Len(result.records) : ContainsKeyword(result.records[i])
    /\ (~XOperation /\ \A i \in 1..Len(world.feeds) : world.feeds[i].ok) =>
         allPosts = IF op = "tools_fetchStories"
                    THEN slice(MatchingCandidates, 0, CountOr(40))
                    ELSE MatchingCandidates

(***************************************************************************)
(* The fields of a normalized record                                       *)
(***************************************************************************)
\* the four text fields of r are the fields of the raw item or their defaults
FieldDefaults(r, item) ==
  /\ r.title = Or(Prop(item, "title"), Str(OpPlaceholder))
  /\ r.title.t = "string" /\ r.title.s # <<>>
  /\ "description" \in DOMAIN r
  /\ r.description = Or(Or(Prop(item, "contentSnippet"), Prop(item, "description")), Str(<<>>))
  /\ r.link = Or(Prop(item, "link"), Str(Hash))
  /\ r.pubDate = Or(Prop(item, "pubDate"), Str(<<>>))

\* C13: every record a feed operation returns for a raw item has the item's
\* title or the operation's placeholder, the snippet or else the raw
\* description or else the empty string, the link or else '#', and the
\* publish date or else the empty string.
C13_FieldDefaults ==
  (Answered /\ op \in FeedOperations /\ ~BuiltInPostsServed) =>
    \A i \in 1..Len(result.records) :
      \E k \in 1..Len(SourceItems(Len(world.feeds))) :
        FieldDefaults(result.records[i], SourceItems(Len(world.feeds))[k].item)

(***************************************************************************)
(* Items with missing fields                                               *)
(***************************************************************************)
\* the raw item has no title, no description, no link or no publish date
LacksField(item) ==
  \E f \in {"title", "description", "link", "pubDate"} : ~Truthy(Prop(item, f))

\* the limit the handler applies to the items of one source
OpCount ==
  CASE op = "tools_fetchStories" -> CountOr(40)
    [] op \in {"fetch_viral_posts", "tools_generatePostsFromRss"} -> CountOr(5)
    [] OTHER -> CountOr(DefaultCount)

\* the items of source n the handler normalizes
Taken(n) == slice(world.feeds[n].items, 0, OpCount)

\* C14: an item that lacks a title, a description, a link or a publish date
\* never aborts a feed operation: when every fetch succeeded and no keyword
\* filter is in force, the handler returns a structured, non-error result
\* and has normalized every item within the count, the incomplete ones
\* included.
C14_MissingFieldNeverAborts ==
  (/\ pc = "done" /\ op \in FeedOperations /\ Keyword = <<>>
   /\ \A n \in 1..Len(world.feeds) : world.feeds[n].ok
   /\ \E n \in 1..Len(world.feeds) : \E k \in 1..Len(Taken(n)) : LacksField(Taken(n)[k])) =>
    /\ result.status = "returned" /\ ~result.isError /\ result.structured
    /\ \A n \in 1..Len(world.feeds) : \A k \in 1..Len(Taken(n)) :
         \E j \in 1..Len(allPosts) : IsRecordOf(allPosts[j], Taken(n)[k], n)

(***************************************************************************)
(* The source label                                                        *)
(***************************************************************************)
\* the URL of source n of the invocation
OpUrl(n) ==
  IF op = "tools_generatePostsFromRss"
  THEN (IF input.rssUrl.t = "undefined" THEN CheezburgerRss ELSE input.rssUrl.s)
  ELSE OpFeeds[n]

\* the hostname without a leading 'www.', 'Unknown' for a URL that does not parse
HostLabel(url) ==
  IF ~UrlParses(url) THEN Str(Unknown)
  ELSE LET h == hostname(url)
       IN Str(IF Len(h) >= 4 /\ SubSeq(h, 1, 4) = Www THEN SubSeq(h, 5, Len(h)) ELSE h)

\* the operations that label a record by the host of its feed URL
LabelledByHost ==
  \/ op \in {"fetch_memes", "fetch_stories", "fetch_ai_science", "fetch_viral_posts", "tools_fetchMemes",
             "tools_generatePostsFromRss"}
  \/ op = "personalize_feed" /\ input.baseInterest # "x-posts"

\* C15: the source label of a record is the lower-case hostname of the URL
\* of the feed it came from with a leading 'www.' removed and nothing else
\* changed ('www.' elsewhere in the hostname is kept), or 'Unknown' when the
\* URL does not parse.
C15_SourceLabel ==
  (Answered /\ LabelledByHost) =>
    \A i \in 1..Len(result.records) :
      \E n \in 1..Len(world.feeds) : \E k \in 1..Len(Taken(n)) :
        /\ world.feeds[n].ok
        /\ result.records[i].title = Or(Prop(Taken(n)[k], "title"), Str(OpPlaceholder))
        /\ result.records[i].link = Or(Prop(Taken(n)[k], "link"), Str(Hash))
        /\ result.records[i]._source = HostLabel(OpUrl(n))

(***************************************************************************)
(* Normalizing the same item object twice                                  *)
(***************************************************************************)
\* the four text fields a record takes from the item
TextFields(item) ==
  IF Nullish(item) THEN <<>>
  ELSE <<Prop(item, "title"), Or(Prop(item, "contentSnippet"), Prop(item, "description")),
         Prop(item, "link"), Prop(item, "pubDate")>>

\* C16: a second extractThumbnail call on the same item object returns what
\* the first call returned, and the calls leave the text fields of the item
\* as they were, so that two normalizations in a row give equal records; for
\* every item shape, several media-thumbnail descriptors of equal, unordered
\* or non-numeric widths included.
C16_Idempotent ==
  [][(xcalls = 1 /\ xcalls' = 2) =>
       /\ xret'.value = xret.value
       /\ xret'.escaped = xret.escaped
       /\ TextFields(xitem') = TextFields(xarg)]_vars

\* the second call ran on an array of three descriptors of different widths,
\* as the first call left it
C16_Witness ==
  /\ xcalls = 2 /\ ~Nullish(xarg)
  /\ FirstPresent(xarg) = 2
  /\ IsArray(xarg.mediaThumbnail)
  /\ Len(xarg.mediaThumbnail.a) = 3
  /\ xarg.mediaThumbnail.a[1] # xarg.mediaThumbnail.a[2]
  /\ DeclaredWidth(xarg.mediaThumbnail.a[1]) > DeclaredWidth(xarg.mediaThumbnail.a[3])
  /\ xret.value # Null

(***************************************************************************)
(* Two invocations with the same input against the same feeds              *)
(***************************************************************************)
\* the handler has answered the repeated call
Repeated == pc = "done" /\ previous # NoResult

\* C17: a feed-backed operation (fetch_memes, fetch_stories,
\* fetch_ai_science, fetch_x_posts, personalize_feed,
\* generate_posts_from_rss) invoked twice with the same input, while the
\* feeds serve the same items and the same sources fail, returns the same
\* record list both times.
C17_SameInputSameRecords ==
  (/\ Repeated
   /\ op \in {"fetch_memes", "fetch_stories", "fetch_ai_science", "fetch_x_posts", "personalize_feed",
              "tools_generatePostsFromRss"}) =>
    /\ result.status = previous.status
    /\ result.records = previous.records

(***************************************************************************)
(* The rendering                                                           *)
(***************************************************************************)
\* C18: a successful invocation returns a structured payload and a
\* rendering with one text block per record of the payload.
C18_BlockPerRecord ==
  (Answered /\ ~result.isError) => result.blocks = Len(result.records)

(***************************************************************************)
(* The inline image of the description                                     *)
(***************************************************************************)
\* the trimmed src value of the first <img> tag of the markup
FirstImgSrc(markup) == Str(trim(ImgMatch(markup).group1))

\* the item has none of the four media fields and its description is markup
\* with an <img> tag whose src is an http(s) URL of more than 10 characters
InlineImageOnly(item) ==
  /\ ~Nullish(item)
  /\ \A k \in 1..4 : ~FieldPresent(item, k)
  /\ item.description.t = "string"
  /\ ImgMatch(item.description.s).found
  /\ PassesGate(FirstImgSrc(item.description.s))

\* C19: for an item without enclosure, media-thumbnail, media-content and
\* thumbnail field whose description markup has an <img> tag with an http(s)
\* src of more than 10 characters, extractThumbnail returns that src,
\* trimmed, whatever plain-text snippet or content the item also carries.
C19_InlineImageReturned ==
  (xret.called /\ InlineImageOnly(xarg)) => xret.value = FirstImgSrc(xarg.description.s)

(***************************************************************************)
(* The query of the modular search tool                                    *)
(***************************************************************************)
\* C20: when the query of the modular fetch_ddg_search is missing or empty
\* the invocation makes no network request, neither the search feed fetch
\* nor the image lookup, and ends in an error.
C20_QueryRequired ==
  (op = "tools_fetchDDG" /\ ~Truthy(input.query)) =>
    /\ fetchLog = <<>>
    /\ pc \in {"query", "done"}
    /\ pc = "done" => (result.status = "threw" \/ result.isError)

\* an invocation with an empty query has ended while the feed would have
\* served results
C20_Witness ==
  /\ op = "tools_fetchDDG" /\ pc = "done"
  /\ input.query = Str(<<>>)
  /\ world.feeds[1].ok /\ Len(world.feeds[1].items) > 0
  /\ result = Thrown

(***************************************************************************)
(* The media-content walk                                                  *)
(***************************************************************************)
\* the entries of the item's media-content field, a single entry counting as
\* a collection of one
Entries(item) == IF IsArray(item.mediaContent) THEN item.mediaContent.a ELSE <<item.mediaContent>>

\* the URL an entry yields: its direct URL attribute if it has one, otherwise
\* the URL of the first descriptor of its nested thumbnail; null when neither
EntryUrl(entry) ==
  LET direct == OptProp(OptProp(entry, "attrs"), "url")
      nested == Or(OptProp(entry, "media_thumbnail"), OptProp(entry, "mediaThumbnail"))
      descriptors == IF IsArray(nested) THEN nested.a ELSE <<nested>>
  IN IF Truthy(direct) THEN direct
     ELSE IF Truthy(nested) /\ descriptors # <<>> THEN DescriptorUrl(descriptors[1])
     ELSE Null

\* the position of the first entry that yields a URL, 0 when none does
FirstYielding(entries) ==
  IF \E i \in 1..Len(entries) : Truthy(EntryUrl(entries[i]))
  THEN CHOOSE i \in 1..Len(entries) :
         Truthy(EntryUrl(entries[i])) /\ \A j \in 1..(i - 1) : ~Truthy(EntryUrl(entries[j]))
  ELSE 0

\* the entries the walk reaches: up to the first yielding one, all when none yields
Walked(entries) ==
  IF FirstYielding(entries) = 0 THEN entries ELSE SubSeq(entries, 1, FirstYielding(entries))

\* C21: when the media-content strategy applies, the candidate is the URL of
\* the first entry, in the item's order, that yields one (its direct URL
\* attribute, else the URL of the first descriptor of its nested thumbnail);
\* entries that yield none are skipped, and the entries after the first
\* yielding one are not examined: the result is the same without them.  Stated
\* for walks over entries that are elements of the feed document (a null or
\* undefined entry on the way is the failure case of C10).
C21_FirstYieldingEntry ==
  (/\ xret.called /\ ~Nullish(xarg)
   /\ FirstPresent(xarg) = 3
   /\ \A i \in 1..Len(Walked(Entries(xarg))) : ~Nullish(Entries(xarg)[i]))
  => LET entries == Entries(xarg)
         k == FirstYielding(entries)
         u == IF k = 0 THEN Null ELSE EntryUrl(entries[k])
     IN /\ xret.value = IF PassesGate(u) THEN u ELSE Null
        /\ xret.value \in {o.thumbnail : o \in extractThumbnailOutcomes([xarg EXCEPT !.mediaContent = Arr(Walked(entries))])}

\* two entries without a URL (an empty nested collection, a nested collection
\* whose first descriptor has none) were skipped and the URL of the third
\* entry's nested descriptor was returned
C21_Witness ==
  /\ xret.called /\ ~Nullish(xarg)
  /\ FirstPresent(xarg) = 3
  /\ IsArray(xarg.mediaContent) /\ Len(xarg.mediaContent.a) = 3
  /\ FirstYielding(xarg.mediaContent.a) = 3
  /\ xret.value = Str(Ub)

(***************************************************************************)
(* An empty media-thumbnail collection                                     *)
(***************************************************************************)
\* the item without its media-thumbnail field
WithoutMediaThumbnail(item) == [item EXCEPT !.mediaThumbnail = Undef]

\* C22: an item whose media-thumbnail collection is present but empty is
\* treated like an item without media-thumbnails: the media-content, thumbnail
\* field and inline-image strategies are evaluated for it, so the result is the
\* one of the same item with the collection removed.
C22_EmptyCollectionSkipped ==
  (/\ xret.called /\ ~Nullish(xarg)
   /\ ~FieldPresent(xarg, 1)
   /\ xarg.mediaThumbnail = Arr(<<>>))
  => xret.value \in {o.thumbnail : o \in extractThumbnailOutcomes(WithoutMediaThumbnail(xarg))}

(***************************************************************************)
(* One request per source                                                  *)
(***************************************************************************)
\* the feed requests the invocation has made so far, as source positions
FeedRequests == FilterSeq(fetchLog, {i \in 1..Len(fetchLog) : fetchLog[i].kind = "feed"})

\* C23: within one invocation every configured source URL is fetched at most
\* once, whether its fetch failed or succeeded: the feed requests go to
\* increasing positions of the source list, and no two of them to the same URL.
C23_FetchedAtMostOnce ==
  \A i, j \in 1..Len(FeedRequests) :
    i < j =>
      /\ FeedRequests[i].source < FeedRequests[j].source
      /\ OpUrl(FeedRequests[i].source) # OpUrl(FeedRequests[j].source)

\* fetch_memes has answered: the first source failed and was requested once,
\* the second was requested once and its records were returned
C23_Witness ==
  /\ Answered /\ op = "fetch_memes"
  /\ ~world.feeds[1].ok /\ world.feeds[2].ok
  /\ FeedRequests = <<[kind |-> "feed", source |-> 1], [kind |-> "feed", source |-> 2]>>
  /\ Len(result.records) > 0

(***************************************************************************)
(* The number of records of a deduplicating operation                      *)
(***************************************************************************)
\* the lowercased record titles (a missing title is the placeholder) of the
\* first count items of every source whose fetch succeeded
DistinctTitles ==
  UNION {{toLowerCase(Or(Prop(Taken(n)[k], "title"), Str(OpPlaceholder)).s) : k \in 1..Len(Taken(n))} :
           n \in {m \in 1..Len(world.feeds) : world.feeds[m].ok}}

\* C26: for an integer count >= 0, fetch_memes, fetch_stories and
\* fetch_ai_science return exactly min(count, d) records, d being the number of
\* distinct lowercased titles among the first count items of the sources that
\* answered: the list is truncated after it is deduplicated.
C26_CountAfterDedupe ==
  (/\ Answered
   /\ op \in {"fetch_memes", "fetch_stories", "fetch_ai_science"}
   /\ input.count.t = "number" /\ input.count.n >= 0)
  => Len(result.records) = Min(input.count.n, Cardinality(DistinctTitles))

\* count 2; the first source serves 'Cat meme' and 'CAT MEME', the second an
\* untitled item: two records are returned, the duplicate not having used up
\* the count
C26_Witness ==
  /\ Answered /\ op = "fetch_memes" /\ input.count = Num(2)
  /\ world.feeds[1] = Fetched(<<ItemCat, ItemCatUpper>>)
  /\ world.feeds[2] = Fetched(<<ItemBare>>)
  /\ Len(result.records) = 2
  /\ result.records[2].title = Str(UntitledMeme)

(***************************************************************************)
(* fetch_x_posts: live records or built-in records                         *)
(***************************************************************************)
\* the records normalized from the items the live feed served
LiveRecords == MapItems(world.feeds[1].items, Len(world.feeds[1].items), UntitledXPost, Str(XViaRssBridge))

\* the live fetch failed or returned no item
LiveEmpty == ~world.feeds[1].ok \/ world.feeds[1].items = <<>>

\* C27: the result of fetch_x_posts never mixes live and built-in data: the
\* built-in posts (_source 'X (fresh)') are returned if and only if the live
\* fetch failed or served no item, otherwise only records normalized from the
\* live feed are; and for every integer count >= 1 the result is not empty.
C27_LiveOrFallback ==
  (Answered /\ op = "fetch_x_posts") =>
    /\ LiveEmpty =>
         \A i \in 1..Len(result.records) : \E k \in 1..Len(mockPosts) : result.records[i] = mockPosts[k]
    /\ ~LiveEmpty =>
         \A i \in 1..Len(result.records) : \E k \in 1..Len(LiveRecords) : result.records[i] = LiveRecords[k]
    /\ input.count.n >= 1 => Len(result.records) >= 1

\* count 2 and a live feed that served one item: one live record is returned
\* and no built-in post fills the second place
C27_Witness ==
  /\ Answered /\ op = "fetch_x_posts" /\ input.count = Num(2)
  /\ world.feeds[1] = Fetched(<<ItemCat>>)
  /\ Len(result.records) = 1
  /\ result.records[1]._source = Str(XViaRssBridge)

(***************************************************************************)
(* The search operations when the image lookup fails                       *)
(***************************************************************************)
SearchOperations == {"fetch_ddg_search", "tools_fetchDDG"}

\* the count the search handler applies and the placeholder URL it uses
SearchCount == IF op = "tools_fetchDDG" THEN fetchDDGCount ELSE CountOr(DefaultCount)
SearchPlaceholder ==
  Str((IF op = "tools_fetchDDG" THEN PlaceholdCo ELSE ViaPlaceholder) \o encodeURIComponent(slice(input.query.s, 0, 20)))

\* the results of the primary search, before the image lookup
PrimaryResults ==
  IF op = "tools_fetchDDG"
  THEN LET items == slice(world.feeds[1].items, 0, SearchCount)
       IN [i \in 1..Len(items) |-> [Record(items[i], SearchResult, Str(Bing)) EXCEPT !.thumbnail = Null]]
  ELSE SearchResults(world.search.data, SearchCount)

\* the handler has ended after an image lookup that failed
ImageLookupFailed ==
  /\ op \in SearchOperations /\ pc = "done"
  /\ fetchLog # <<>> /\ fetchLog[Len(fetchLog)].kind = "image"
  /\ ~world.img.ok

\* C28: in both implementations of fetch_ddg_search, when the primary search
\* produced at least one result and the image lookup then fails, the results
\* are all still returned (within count), the first one with the placeholder
\* thumbnail.
C28_ImageFailureKeepsResults ==
  ImageLookupFailed =>
    /\ result.status = "returned" /\ ~result.isError
    /\ result.records =
         slice([PrimaryResults EXCEPT ![1].thumbnail = SearchPlaceholder], 0, SearchCount)

(***************************************************************************)
(* The number of results of fetch_ddg_search                               *)
(***************************************************************************)
\* a: 1 if the response has an instant answer, else 0; r: its related topics
AnswerCount == IF Truthy(world.search.data.Abstract) THEN 1 ELSE 0
RelatedCount ==
  IF IsArray(world.search.data.RelatedTopics) THEN Len(world.search.data.RelatedTopics.a) ELSE 0

\* C29: for every integer count >= 1, fetch_ddg_search of server.ts returns
\* exactly min(count, a + r) records, a being 1 if the response has an instant
\* answer and 0 otherwise and r the number of its related topics; with no
\* instant answer and at least count related topics it returns count records.
C29_SearchResultCount ==
  (/\ Answered /\ op = "fetch_ddg_search"
   /\ input.count.n >= 1
   /\ world.search.ok)
  => Len(result.records) = Min(input.count.n, AnswerCount + RelatedCount)

(***************************************************************************)
(* The argument of extractThumbnail after the call                         *)
(***************************************************************************)
\* C30: extractThumbnail only reads its argument: after a call the raw item,
\* the order of the elements of its media-thumbnail collection included, is
\* what it was before the call.
C30_ArgumentUnchanged == xret.called => xitem = xarg

(***************************************************************************)
(* Two invocations whose fetches interleave                                *)
(***************************************************************************)
\* every record is one of the built-in posts
FromBuiltIn(records) ==
  \A i \in 1..Len(records) : \E k \in 1..Len(mockPosts) : records[i] = mockPosts[k]

\* the two results are the same, but for the random order in which the
\* built-in posts are drawn when they stand in for the feed
SameButForDraws(r, p) ==
  /\ r.status = p.status /\ r.isError = p.isError /\ r.key = p.key /\ r.blocks = p.blocks
  /\ \/ r.records = p.records
     \/ /\ Len(r.records) = Len(p.records)
        /\ FromBuiltIn(r.records) /\ FromBuiltIn(p.records)

\* C24: an invocation whose fetches interleave with those of another
\* invocation (of the same or of another operation) returns the record list
\* it returns when it runs alone against the same feed contents: `previous`
\* is what the call returned on its own, `result` what it returned while the
\* other one was in flight.
C24_Isolation ==
  /\ (Repeated /\ other # NoOther) => SameButForDraws(result, previous)
  /\ (other # NoOther /\ other.pc = "done" /\ other.previous # NoResult)
       => SameButForDraws(other.result, other.previous)

\* fetch_memes has returned its two records for the second time, as when it
\* ran alone, while a personalize_feed call that arrived during its run has
\* fetched its first source, holds a record of its own and still awaits its
\* second source
C24_Witness ==
  /\ Repeated /\ op = "fetch_memes"
  /\ Len(fetchLog) = 2 /\ Len(result.records) = 2 /\ result.records = previous.records
  /\ other # NoOther /\ other.op = "personalize_feed" /\ other.pc = "loop"
  /\ Len(other.fetchLog) = 1 /\ Len(other.allPosts) = 1

(***************************************************************************)
(* The response closes while the handler is fetching                       *)
(***************************************************************************)
\* C25: once the HTTP response of an invocation has closed while it was
\* fetching, that invocation completes no fetch and starts no further one
\* (its request log stays as it was at the close), and the close does not
\* change what the other invocation returns.
C25_AbortStopsFetching ==
  /\ closed # NotClosed => Len(fetchLog) = closed.at
  /\ (other # NoOther /\ other.closed # NotClosed) => Len(other.fetchLog) = other.closed.at
  /\ (Repeated /\ other # NoOther /\ other.closed # NotClosed) => SameButForDraws(result, previous)

====
